---- MODULE Spec2Model ----
(***************************************************************************)
(* winit_tray: the native-callback-to-queue event bridge.                  *)
(*                                                                         *)
(* The module models, from the sources,                                    *)
(*   - the manager facades (TrayManager, PopupManager, MenuBarManager):    *)
(*     one mpsc channel and one proxy closure per manager;                 *)
(*   - the Windows backend's window procedures for tray and popup windows  *)
(*     with their per-window lifecycle record (userdata_removed,           *)
(*     recurse_depth), nested dispatch included;                           *)
(*   - the macOS backend's tray with its thread-local event handler.       *)
(* A build targets one platform, so each platform has its own              *)
(* specification over the shared manager state.                            *)
(***************************************************************************)
EXTENDS Naturals, Sequences, FiniteSets, TLC

(* ------------------------------ bounds -------------------------------- *)
MaxWindows == 2      \* native windows (tray or popup) created in one run
MaxNested == 1       \* of these, windows followed through menus, timers and activation
NumManagers == 3     \* managers alive at start
MaxPointer == 3      \* pointer-button messages and menu commands delivered in one run
MaxMenuBars == 1     \* menu bars created in one run
MaxItems == 1        \* items of a menu bar
MaxBars == 2         \* MenuBar::new calls in one run, failed ones included
MaxBarItems == 2     \* top-level menus (of one item each) of a menu bar under failures
MaxClose == 2        \* close() calls per popup handle
MaxDepth == 3        \* nesting of window-procedure frames on the UI thread
MaxMacTrays == 2     \* macOS status items created in one run
MaxLinuxTrays == 2   \* Linux trays created in one run
MaxPixels == 2       \* pixels of an icon handed to the conversion
MaxPanics == 1       \* dispatches of one window in which the proxy panics

Windows == 1..MaxWindows
Managers == 1..NumManagers
MacTrays == 1..MaxMacTrays
LinuxTrays == 1..MaxLinuxTrays
MenuBars == 1..MaxMenuBars
Bars == 1..MaxBars
\* The application window a menu bar is attached to.
AppHwnd == 1

VARIABLES
    win,        \* [Windows -> native window: state, GWL_USERDATA slot, timer, handle]
    rec,        \* [Windows -> lifecycle record: PopupWindowData / WindowData]
    gh,         \* [Windows -> history of the record kept for the properties]
    stack,      \* UI thread: window-procedure frames suspended in a nested call
    posted,     \* UI thread message queue (PostMessageW)
    POPUP_COUNTER, \* static POPUP_COUNTER
    mgr,        \* [Managers -> kind, alive, channel queue, wake-ups signalled]
    received,   \* [Managers -> entries the application took with try_recv/recv]
    log,        \* every proxy invocation, in order
    menubar,    \* [Bars -> Windows menu bar: state, manager, id, hwnd, items, attached]
    MENU_BAR_CALLBACKS, \* static MENU_BAR_CALLBACKS: (hwnd, command id) -> callback
    MB_COUNTER, \* static COUNTER of the Windows menu bar module
    mac,        \* [MacTrays -> macOS tray: state, manager, id]
    TRAY_EVENT_HANDLER, \* macOS thread-local handler slot: 0 or the manager captured
    COUNTER,    \* macOS static COUNTER
    items,      \* the MenuEntry list handed to the context menu
    id_map,     \* IdMap.ids of the invocation being shown (or last shown)
    hmenu,      \* native menu built by the invocation: null or its entry tree
    menu_pc,    \* "idle" or "tracking" (inside TrackPopupMenu)
    menu_selected, \* command code TrackPopupMenu returned last
    menu_ret,   \* Option<T> the last show_context_menu call returned
    lin,        \* [LinuxTrays -> Linux tray: handle, worker thread, D-Bus registrations]
    LINUX_COUNTER, \* static COUNTER of the Linux backend
    destroyed,  \* menu handles the last destroy_menu_tree call passed to DestroyMenu, in order
    handled,    \* the last handle_menu_command call the application made and its result
    icon,       \* the Icon handed to icon_to_sni_icon
    sni_icon,   \* Option<SniIcon> the last icon_to_sni_icon call returned
    dbus_call,  \* [LinuxTrays -> the interface call running on a bus thread: step, button]
    loop_pc,    \* application loop: 0 between callbacks, m while proxy_wake_up drains manager m
    wakes_seen, \* [Managers -> wake-ups of the manager the loop has taken]
    POPUP_MENU_RESULT, \* macOS: thread-local Option<usize> written by menuItemClicked:
    popup_calls,       \* macOS: show_context_menu_at_location calls blocked in popUpMenu
    popup_ret          \* macOS: what the call that returned last was given and returned

winVars == <<win, rec, gh, stack, posted, POPUP_COUNTER>>
barVars == <<menubar, MENU_BAR_CALLBACKS, MB_COUNTER, handled>>
mgrVars == <<mgr, received, log>>
macVars == <<mac, TRAY_EVENT_HANDLER, COUNTER>>
menuVars == <<items, id_map, hmenu, menu_pc, menu_selected, menu_ret, destroyed>>
linVars == <<lin, LINUX_COUNTER>>
iconVars == <<icon, sni_icon>>
loopVars == <<dbus_call, loop_pc, wakes_seen>>
popupVars == <<POPUP_MENU_RESULT, popup_calls, popup_ret>>
auxVars == <<iconVars, loopVars, popupVars>>
vars == <<win, rec, gh, stack, posted, POPUP_COUNTER, mgr, received, log,
          menubar, MENU_BAR_CALLBACKS, MB_COUNTER, mac, TRAY_EVENT_HANDLER, COUNTER,
          items, id_map, hmenu, menu_pc, menu_selected, menu_ret, lin, LINUX_COUNTER,
          destroyed, handled, icon, sni_icon,
          dbus_call, loop_pc, wakes_seen, POPUP_MENU_RESULT, popup_calls, popup_ret>>

\* The native object a callback belongs to.
Obj(kind, i) == [kind |-> kind, i |-> i]

(* ------------------------------ events -------------------------------- *)
NoEvent == [tag |-> "none", arg |-> "none"]
Closed(reason) == [tag |-> "Closed", arg |-> reason]
PointerButton(b) == [tag |-> "PointerButton", arg |-> b]
MenuItemClicked(id) == [tag |-> "MenuItemClicked", arg |-> id]

(* --------------------------- manager facade --------------------------- *)
\* std::sync::mpsc::Sender::send: appends at the tail; Err once the receiver is gone.
Send_prepends(q, alive, e) == IF alive THEN <<e>> \o q ELSE q
Send(q, alive, e) == IF alive THEN Append(q, e) ELSE q

\* if let Err(e) = sender.send(..) { tracing::error!(..) }: the failures logged so far.
tracing_error_never(n, alive) == n
tracing_error(n, alive) == IF alive THEN n ELSE n + 1

\* EventLoopProxy::wake_up, called after the send whatever its result.
wake_up_forgotten(n) == n
wake_up(n) == n + 1

\* The closure TrayManager::new stores in callback_proxy.
TrayManagerProxy(mg, e) ==
    [mg EXCEPT !.queue = Send(@, mg.alive, e), !.errors = tracing_error(@, mg.alive),
               !.wakes = wake_up(@)]

\* The closure PopupManager::new stores in callback_proxy.
PopupManagerProxy(mg, e) ==
    [mg EXCEPT !.queue = Send(@, mg.alive, e), !.errors = tracing_error(@, mg.alive),
               !.wakes = wake_up(@)]

\* The closure MenuBarManager::new stores in callback_proxy.
MenuBarManagerProxy(mg, e) ==
    [mg EXCEPT !.queue = Send(@, mg.alive, e), !.errors = tracing_error(@, mg.alive),
               !.wakes = wake_up(@)]

\* A clone of manager m's callback_proxy is invoked with (id, ev); obj is the
\* native object whose callback made the call, n the invocation's number.
callback_proxy(mgs, m, id, ev, obj) ==
    LET e == [id |-> id, ev |-> ev, obj |-> obj, n |-> Len(log) + 1]
    IN  [mgs EXCEPT ![m] =
            CASE mgs[m].kind = "tray" -> TrayManagerProxy(@, e)
              [] mgs[m].kind = "popup" -> PopupManagerProxy(@, e)
              [] OTHER -> MenuBarManagerProxy(@, e)]

\* The invocation as the log keeps it.
Logged(m, id, ev, obj) ==
    [m |-> m, id |-> id, ev |-> ev, obj |-> obj, n |-> Len(log) + 1,
     ok |-> mgr[m].alive]


(* --------------------- Windows backend: messages ---------------------- *)
PopupMouseMsgs == {"WM_LBUTTONDOWN", "WM_RBUTTONUP"}
TrayIconMsgs == {"WM_USER_TRAYICON:WM_LBUTTONDOWN", "WM_USER_TRAYICON:WM_RBUTTONUP"}

\* What one arm of a window procedure's match does, in the order of the code:
\* KillTimer, send_event, userdata_removed.set(true), set_window_long(.., 0),
\* DestroyWindow; show_menu for a right-button release.
NoEffect ==
    [event |-> NoEvent, kill_timer |-> FALSE, set_removed |-> FALSE,
     clear_slot |-> "no", destroy |-> FALSE, menu |-> FALSE]

DestroyRequest_keeps_slot(reason, kill) ==
    [event |-> Closed(reason), kill_timer |-> kill, set_removed |-> TRUE,
     clear_slot |-> "no", destroy |-> TRUE, menu |-> FALSE]
DestroyRequest_without_event(reason, kill) ==
    [event |-> NoEvent, kill_timer |-> kill, set_removed |-> TRUE,
     clear_slot |-> "before", destroy |-> TRUE, menu |-> FALSE]
DestroyRequest(reason, kill) ==
    [event |-> Closed(reason), kill_timer |-> kill, set_removed |-> TRUE,
     clear_slot |-> "before", destroy |-> TRUE, menu |-> FALSE]

\* WM_TIMER if wparam == AUTO_DISMISS_TIMER_ID
on_WM_TIMER_keeps_slot == [DestroyRequest("Timeout", TRUE) EXCEPT !.clear_slot = "no"]
on_WM_TIMER == DestroyRequest("Timeout", TRUE)

\* WM_ACTIVATE if (wparam & 0xFFFF) == WA_INACTIVE
on_WM_ACTIVATE_ignores_flag(close_on_click_outside) ==
    DestroyRequest("ClickOutside", FALSE)
on_WM_ACTIVATE_clears_slot_late(close_on_click_outside) ==
    IF close_on_click_outside
    THEN [DestroyRequest("ClickOutside", FALSE) EXCEPT !.clear_slot = "after"]
    ELSE NoEffect
on_WM_ACTIVATE(close_on_click_outside) ==
    IF close_on_click_outside THEN DestroyRequest("ClickOutside", FALSE) ELSE NoEffect

\* msg == POPUP_CLOSE_MSG_ID.get()
on_POPUP_CLOSE_MSG_keeps_slot == [DestroyRequest("Explicit", FALSE) EXCEPT !.clear_slot = "no"]
on_POPUP_CLOSE_MSG == DestroyRequest("Explicit", FALSE)

\* The mouse-button arm of the popup procedure.
on_popup_mouse_without_event(msg) ==
    [NoEffect EXCEPT !.menu = (msg = "WM_RBUTTONUP")]
on_popup_mouse(msg) ==
    [NoEffect EXCEPT !.event = PointerButton(msg), !.menu = (msg = "WM_RBUTTONUP")]

popup_window_callback_inner(r, msg) ==
    CASE msg = "WM_TIMER" -> on_WM_TIMER
      [] msg = "WM_ACTIVATE" -> on_WM_ACTIVATE(r.close_on_click_outside)
      [] msg \in PopupMouseMsgs -> on_popup_mouse(msg)
      [] msg = "POPUP_CLOSE_MSG" -> on_POPUP_CLOSE_MSG
      [] OTHER -> NoEffect

\* msg == DESTROY_MSG_ID.get() in the tray procedure: DestroyWindow and nothing else.
on_DESTROY_MSG == [NoEffect EXCEPT !.destroy = TRUE]

public_window_callback_inner(r, msg) ==
    CASE msg \in TrayIconMsgs ->
            [NoEffect EXCEPT !.event = PointerButton(msg),
                             !.menu = (msg = "WM_USER_TRAYICON:WM_RBUTTONUP")]
      [] msg = "DESTROY_MSG" -> on_DESTROY_MSG
      [] OTHER -> NoEffect

\* Messages DestroyWindow sends to the window before it returns.
DestroySeq(wr) ==
    IF wr.state # "live" THEN <<>>
    ELSE (IF wr.active THEN <<"WM_ACTIVATE">> ELSE <<>>) \o <<"WM_DESTROY", "WM_NCDESTROY">>

\* if userdata_removed && recurse_depth == 0 { drop(Box::from_raw(userdata_ptr)) }
ShouldFree_ignores_depth(userdata_removed, recurse_depth) == userdata_removed
ShouldFree(userdata_removed, recurse_depth) == userdata_removed /\ recurse_depth = 0

\* The tail of the window procedure, r being the record as the inner call left it.
Exit_keeps_depth(r) ==
    [r EXCEPT !.alloc = IF ShouldFree(r.userdata_removed, r.recurse_depth - 1) THEN "freed" ELSE @]
Exit(r) ==
    LET depth == r.recurse_depth - 1
    IN  [r EXCEPT !.recurse_depth = depth,
                  !.alloc = IF ShouldFree(r.userdata_removed, depth) THEN "freed" ELSE @]

Frees(r) == IF ShouldFree(r.userdata_removed, r.recurse_depth - 1) THEN 1 ELSE 0

TriggerReason(wr, r, msg) ==
    CASE msg = "WM_TIMER" -> "Timeout"
      [] msg = "POPUP_CLOSE_MSG" -> "Explicit"
      [] msg = "WM_ACTIVATE" /\ r.close_on_click_outside -> "ClickOutside"
      [] OTHER -> "none"

NoteTrigger(g, wr, r, msg) ==
    IF wr.kind = "popup" /\ g.firstTrigger = "none"
    THEN [g EXCEPT !.firstTrigger = TriggerReason(wr, r, msg)]
    ELSE g

\* The id the record's closures pass to the proxy: a popup's closures captured
\* popup.id(), a tray's build TrayId::from_raw(hwnd) from the window they are
\* called for.
window_event_id_from_record(kind, r, w) == r.popup_id
window_event_id(kind, r, w) == IF kind = "popup" THEN r.popup_id ELSE w

\* The window procedure found a record in GWL_USERDATA and runs the arm eff on it.
\* wn, stk, pst: windows, stack and posted queue as the caller leaves them.
WithRecord(w, msg, eff, wn, stk, pst) ==
    LET r == rec[w]
        d1 == r.recurse_depth + 1
        id == window_event_id(wn[w].kind, r, w)
        sends == eff.event.tag # "none"
        r1 == [r EXCEPT !.recurse_depth = d1,
                        !.userdata_removed = @ \/ eff.set_removed]
        w1 == [wn[w] EXCEPT !.timer = @ /\ ~eff.kill_timer,
                            !.slot = @ /\ eff.clear_slot # "before"]
        shows == eff.menu /\ r.menu_handler /\ ~eff.destroy
        g1 == [NoteTrigger(gh[w], wn[w], r, msg) EXCEPT
                  !.lateRead = @ \/ r.userdata_removed,
                  !.uaf = @ \/ r.alloc = "freed",
                  !.destroyCalls = @ + (IF eff.destroy THEN 1 ELSE 0),
                  !.destroyDepth = IF eff.destroy /\ @ = 0 THEN d1 ELSE @]
    IN  /\ mgr' = IF sends THEN callback_proxy(mgr, r.proxy, id, eff.event, Obj("window", w)) ELSE mgr
        /\ log' = IF sends THEN Append(log, Logged(r.proxy, id, eff.event, Obj("window", w))) ELSE log
        /\ posted' = pst
        /\ IF eff.destroy THEN
              /\ rec' = [rec EXCEPT ![w] = r1]
              /\ win' = [wn EXCEPT ![w] = [w1 EXCEPT !.state = "destroying"]]
              /\ gh' = [gh EXCEPT ![w] = g1]
              /\ stack' = Append(stk, [w |-> w, msg |-> msg, pc |-> "destroy",
                                       dseq |-> DestroySeq(wn[w]),
                                       late_clear |-> eff.clear_slot = "after"])
           ELSE IF shows THEN
              \* show_menu: SetForegroundWindow, then TrackPopupMenu's modal loop
              /\ rec' = [rec EXCEPT ![w] = r1]
              /\ win' = [wn EXCEPT ![w] = [w1 EXCEPT !.active = TRUE]]
              /\ gh' = [gh EXCEPT ![w] = g1]
              /\ stack' = Append(stk, [w |-> w, msg |-> msg, pc |-> "menu",
                                       dseq |-> <<>>, late_clear |-> FALSE])
           ELSE
              /\ rec' = [rec EXCEPT ![w] = Exit(r1)]
              /\ win' = [wn EXCEPT ![w] = w1]
              /\ gh' = [gh EXCEPT ![w] = [g1 EXCEPT !.frees = @ + Frees(r1)]]
              /\ stack' = stk

\* (0, _) => DefWindowProcW: the record is not touched.
WithoutRecord(w, msg, wn, stk, pst) ==
    /\ win' = wn
    /\ stack' = stk
    /\ posted' = pst
    /\ gh' = [gh EXCEPT ![w] =
                [NoteTrigger(@, wn[w], rec[w], msg) EXCEPT
                    !.lateDefault = @ \/ rec[w].userdata_removed,
                    !.lateTrigger = @ \/ (rec[w].userdata_removed
                                            /\ TriggerReason(wn[w], rec[w], msg) # "none")]]
    /\ UNCHANGED <<rec, mgr, log>>

popup_window_callback(w, msg, wn, stk, pst) ==
    IF wn[w].slot
    THEN WithRecord(w, msg, popup_window_callback_inner(rec[w], msg), wn, stk, pst)
    ELSE WithoutRecord(w, msg, wn, stk, pst)

public_window_callback(w, msg, wn, stk, pst) ==
    IF wn[w].slot
    THEN WithRecord(w, msg, public_window_callback_inner(rec[w], msg), wn, stk, pst)
    ELSE WithoutRecord(w, msg, wn, stk, pst)

\* lpfnWndProc of the window's class.
WndProc(w, msg, wn, stk, pst) ==
    IF wn[w].kind = "popup"
    THEN popup_window_callback(w, msg, wn, stk, pst)
    ELSE public_window_callback(w, msg, wn, stk, pst)


(* ---------------------- Windows backend: actions ---------------------- *)
NoWindow ==
    [state |-> "none", kind |-> "none", mgr |-> 0, slot |-> FALSE, timer |-> FALSE,
     active |-> FALSE, handle |-> "none"]
NoRecord ==
    [alloc |-> "none", userdata_removed |-> FALSE, recurse_depth |-> 0, popup_id |-> 0,
     close_on_click_outside |-> FALSE, menu_handler |-> FALSE, proxy |-> 0]
\* What the last dispatch in which the proxy panicked did: the value it returned,
\* recurse_depth on entry and on return, userdata_removed and whether the record
\* was freed at the end, whether the runner kept the panic.
NoPanic ==
    [result |-> "none", entry |-> 0, exit |-> 0, removed |-> FALSE, freed |-> FALSE,
     panic_error |-> FALSE]
NoHistory ==
    [frees |-> 0, destroyDepth |-> 0, destroyCalls |-> 0, closeReqs |-> 0,
     lateRead |-> FALSE, lateDefault |-> FALSE, lateTrigger |-> FALSE, uaf |-> FALSE,
     firstTrigger |-> "none", hookPanic |-> FALSE, create |-> "none", unwound |-> FALSE,
     panics |-> 0, panic |-> NoPanic]

Top == stack[Len(stack)]
Pop == SubSeq(stack, 1, Len(stack) - 1)

\* The host loop, or TrackPopupMenu's modal loop, is taking messages.
Pumping == IF stack = <<>> THEN TRUE ELSE Top.pc = "menu"

\* The window handles the system hands out, in order.
NextHwnd(w) == \A v \in Windows : (v < w) <=> (win[v].state # "none")

\* Native inputs delivered so far: mouse buttons and menu bar commands.
PointerCount ==
    Cardinality({i \in 1..Len(log) :
                   log[i].ev.tag = "PointerButton" \/ log[i].obj.kind = "menubar"})

\* Runner::catch_unwind(f): Some(result), or None with the panic kept in panic_error.
Runner_catch_unwind(panics) == [some |-> ~panics, panic_error |-> panics]
\* Runner::take_panic_error: the panic kept, if any (the cell is left empty).
Runner_take_panic_error_swallows(panic_error) == FALSE
Runner_take_panic_error(panic_error) == panic_error

\* InitData::on_nccreate / PopupInitData::on_nccreate: the object and its record are
\* built inside catch_unwind; only a finished record is boxed and returned.
on_nccreate(panics) ==
    LET res == Runner_catch_unwind(panics)
    IN  [userdata |-> res.some, object |-> res.some, panic_error |-> res.panic_error]
\* on_create: expect() on the object on_nccreate left; called outside catch_unwind.
on_create(object) == IF object THEN "ok" ELSE "panic"

\* CreateWindowExW as the window procedure sees it. WM_NCCREATE: a record stores
\* the slot and returns DefWindowProcW's TRUE, a failure returns -1, which the
\* system also takes as "continue". WM_CREATE: with an empty slot the procedure
\* returns -1 and the system destroys the window and returns a null handle; with a
\* record it calls on_create, whose panic would leave the procedure by unwinding.
CreateWindowExW(panics) ==
    LET nc == on_nccreate(panics)
        nccreate == IF nc.userdata THEN "TRUE" ELSE "-1"
        slot == nc.userdata
        created == IF nccreate = "FALSE" THEN "not sent"
                   ELSE IF ~slot THEN "refused"
                   ELSE on_create(nc.object)
    IN  [null |-> created # "ok", slot |-> slot /\ created = "ok",
         unwound |-> created = "panic", panic_error |-> nc.panic_error]

\* What init / init_popup do with the outcome: resume the panic kept by the runner,
\* else report a null handle as an error, else go on with the window.
CreateOutcome(cw) ==
    IF Runner_take_panic_error(cw.panic_error) THEN "resume_unwind"
    ELSE IF cw.null THEN "Err" ELSE "Ok"

FailedWindow(kind) ==
    [state |-> "destroyed", kind |-> kind, mgr |-> 0, slot |-> FALSE, timer |-> FALSE,
     active |-> FALSE, handle |-> "none"]
NoteCreate(h, panics, cw) ==
    [h EXCEPT !.hookPanic = panics, !.create = CreateOutcome(cw), !.unwound = cw.unwound]

\* init_popup: CreateWindowExW runs on_nccreate (the id is drawn, the record is boxed
\* and stored in GWL_USERDATA) and on_create; then SetTimer and
\* ShowWindow(SW_SHOWNOACTIVATE). panics: the construction hook panics.
init_popup(w, m, close_on_click_outside, auto_dismiss, menu, panics) ==
    /\ stack = <<>>
    /\ NextHwnd(w)
    /\ mgr[m].alive /\ mgr[m].kind = "popup"
    /\ LET cw == CreateWindowExW(panics)
       IN  /\ win' = [win EXCEPT ![w] =
                        IF CreateOutcome(cw) = "Ok"
                        THEN [state |-> "live", kind |-> "popup", mgr |-> m, slot |-> cw.slot,
                              timer |-> auto_dismiss, active |-> FALSE, handle |-> "held"]
                        ELSE FailedWindow("popup")]
           /\ rec' = [rec EXCEPT ![w] =
                        IF cw.slot
                        THEN [alloc |-> "live", userdata_removed |-> FALSE, recurse_depth |-> 0,
                              popup_id |-> POPUP_COUNTER,
                              close_on_click_outside |-> close_on_click_outside,
                              menu_handler |-> menu, proxy |-> m]
                        ELSE @]
           /\ gh' = [gh EXCEPT ![w] = NoteCreate(@, panics, cw)]
    /\ POPUP_COUNTER' = POPUP_COUNTER + 1
    /\ UNCHANGED <<menuVars, auxVars, linVars, stack, posted, mgrVars, barVars, macVars>>

\* init, the parent window of the attributes: a Win32 handle is used, none is fine,
\* a handle of another platform reaches unreachable!().
parent_hwnd(parent) ==
    CASE parent = "Win32" -> "Some"
      [] parent = "None" -> "None"
      [] OTHER -> "unreachable"

\* The operating system hands out a window handle value that no window holds now:
\* one never used, or the value of a window that was destroyed.
FreeHwnd(w) == win[w].state \in {"none", "destroyed"}

\* init: the tray window, its record, and the notification icon, on the handle value
\* w the system picks. A parent handle of the wrong kind panics before any window
\* is made.
init_at(w, m, menu, panics, parent) ==
    /\ stack = <<>>
    /\ FreeHwnd(w)
    /\ mgr[m].alive /\ mgr[m].kind = "tray"
    /\ IF parent_hwnd(parent) = "unreachable"
       THEN /\ gh' = [gh EXCEPT ![w].create = "panic"]
            /\ UNCHANGED <<win, rec>>
       ELSE LET cw == CreateWindowExW(panics)
            IN  /\ win' = [win EXCEPT ![w] =
                             IF CreateOutcome(cw) = "Ok"
                             THEN [state |-> "live", kind |-> "tray", mgr |-> m, slot |-> cw.slot,
                                   timer |-> FALSE, active |-> FALSE, handle |-> "held"]
                             ELSE FailedWindow("tray")]
                /\ rec' = [rec EXCEPT ![w] =
                             IF cw.slot
                             THEN [alloc |-> "live", userdata_removed |-> FALSE, recurse_depth |-> 0,
                                   popup_id |-> 0, close_on_click_outside |-> FALSE,
                                   menu_handler |-> menu, proxy |-> m]
                             ELSE @]
                /\ gh' = [gh EXCEPT ![w] = NoteCreate(NoHistory, panics, cw)]
    /\ UNCHANGED <<menuVars, auxVars, linVars, stack, posted, POPUP_COUNTER, mgrVars, barVars, macVars>>

\* init with no parent window, on a handle value never used before.
init(w, m, menu, panics) ==
    /\ NextHwnd(w)
    /\ init_at(w, m, menu, panics, "None")

\* PostMessageW fails once the window is gone.
IsWindow(w) == win[w].state \in {"live", "destroying"}
PostMessageW(q, w, msg) == IF IsWindow(w) THEN Append(q, [w |-> w, msg |-> msg]) ELSE q

\* Popup::close
close(w) ==
    /\ Pumping
    /\ win[w].kind = "popup" /\ win[w].handle = "held"
    /\ gh[w].closeReqs < MaxClose
    /\ posted' = PostMessageW(posted, w, "POPUP_CLOSE_MSG")
    /\ gh' = [gh EXCEPT ![w].closeReqs = @ + (IF IsWindow(w) THEN 1 ELSE 0)]
    /\ UNCHANGED <<menuVars, auxVars, linVars, win, rec, stack, POPUP_COUNTER, mgrVars, barVars, macVars>>

\* Drop for Popup
DropPopup(w) ==
    /\ Pumping
    /\ win[w].kind = "popup" /\ win[w].handle = "held"
    /\ posted' = PostMessageW(posted, w, "POPUP_CLOSE_MSG")
    /\ win' = [win EXCEPT ![w].handle = "dropped"]
    /\ gh' = [gh EXCEPT ![w].closeReqs = @ + (IF IsWindow(w) THEN 1 ELSE 0)]
    /\ UNCHANGED <<menuVars, auxVars, linVars, rec, stack, POPUP_COUNTER, mgrVars, barVars, macVars>>

\* Drop for Tray
DropTray_destroys_window(w) ==
    /\ Pumping
    /\ win[w].kind = "tray" /\ win[w].handle = "held"
    /\ win' = [win EXCEPT ![w].handle = "dropped",
                          ![w].state = IF IsWindow(w) THEN "destroyed" ELSE @]
    /\ UNCHANGED <<menuVars, auxVars, linVars, posted, rec, gh, stack, POPUP_COUNTER, mgrVars, barVars, macVars>>
DropTray(w) ==
    /\ Pumping
    /\ win[w].kind = "tray" /\ win[w].handle = "held"
    /\ posted' = PostMessageW(posted, w, "DESTROY_MSG")
    /\ win' = [win EXCEPT ![w].handle = "dropped"]
    /\ UNCHANGED <<menuVars, auxVars, linVars, rec, gh, stack, POPUP_COUNTER, mgrVars, barVars, macVars>>

\* The loop takes the oldest posted message and dispatches it.
PumpPosted ==
    /\ Pumping /\ Len(stack) < MaxDepth
    /\ posted # <<>>
    /\ WndProc(Head(posted).w, Head(posted).msg, win, stack, Tail(posted))
    /\ UNCHANGED <<menuVars, auxVars, linVars, POPUP_COUNTER, received, barVars, macVars>>

\* The auto-dismiss timer set by init_popup expires.
PumpTimer(w) ==
    /\ Pumping /\ Len(stack) < MaxDepth
    /\ win[w].state = "live" /\ win[w].timer
    /\ WndProc(w, "WM_TIMER", win, stack, posted)
    /\ UNCHANGED <<menuVars, auxVars, linVars, POPUP_COUNTER, received, barVars, macVars>>

\* The window loses activation: WM_ACTIVATE with WA_INACTIVE.
PumpDeactivate(w) ==
    /\ Pumping /\ Len(stack) < MaxDepth
    /\ win[w].state = "live" /\ win[w].active
    /\ WndProc(w, "WM_ACTIVATE", [win EXCEPT ![w].active = FALSE], stack, posted)
    /\ UNCHANGED <<menuVars, auxVars, linVars, POPUP_COUNTER, received, barVars, macVars>>

\* A mouse button over the popup; a click activates the window it lands on.
PumpMouse(w, msg) ==
    /\ stack = <<>>
    /\ win[w].state = "live" /\ win[w].kind = "popup"
    /\ PointerCount < MaxPointer
    /\ WndProc(w, msg, [win EXCEPT ![w].active = TRUE], stack, posted)
    /\ UNCHANGED <<menuVars, auxVars, linVars, POPUP_COUNTER, received, barVars, macVars>>

\* The shell posts the icon's callback message for a mouse button over it.
PumpTrayIcon(w, msg) ==
    /\ Pumping /\ Len(stack) < MaxDepth
    /\ win[w].state = "live" /\ win[w].kind = "tray"
    /\ PointerCount < MaxPointer
    /\ WndProc(w, msg, win, stack, posted)
    /\ UNCHANGED <<menuVars, auxVars, linVars, POPUP_COUNTER, received, barVars, macVars>>

\* Inside DestroyWindow: the next message it sends to the window being destroyed.
DestroyWindowSend ==
    /\ stack # <<>> /\ Top.pc = "destroy" /\ Top.dseq # <<>>
    /\ LET f == Top
           msg == Head(f.dseq)
           stk == Append(Pop, [f EXCEPT !.dseq = Tail(@)])
           wn == IF msg = "WM_ACTIVATE" THEN [win EXCEPT ![f.w].active = FALSE] ELSE win
       IN WndProc(f.w, msg, wn, stk, posted)
    /\ UNCHANGED <<menuVars, auxVars, linVars, POPUP_COUNTER, received, barVars, macVars>>

\* DestroyWindow returns: the window, its timers and its posted messages are gone;
\* the suspended procedure runs to its end.
DestroyWindowReturn ==
    /\ stack # <<>> /\ Top.pc = "destroy" /\ Top.dseq = <<>>
    /\ LET f == Top
           r == rec[f.w]
       IN /\ win' = [win EXCEPT ![f.w] =
                        [@ EXCEPT !.state = "destroyed", !.active = FALSE,
                                  !.timer = FALSE, !.slot = @ /\ ~f.late_clear]]
          /\ posted' = SelectSeq(posted, LAMBDA p : p.w # f.w)
          /\ rec' = [rec EXCEPT ![f.w] = Exit(r)]
          /\ gh' = [gh EXCEPT ![f.w] =
                       [@ EXCEPT !.frees = @ + Frees(r), !.uaf = @ \/ r.alloc = "freed"]]
          /\ stack' = Pop
    /\ UNCHANGED <<menuVars, auxVars, linVars, POPUP_COUNTER, mgrVars, barVars, macVars>>

\* TrackPopupMenu returns the command selected (0: dismissed); the menu handler
\* stored in the record sends MenuItemClicked for a selection, and the suspended
\* procedure runs to its end. A menu whose owner was destroyed returns 0.
TrackPopupMenuReturn(selected) ==
    /\ stack # <<>> /\ Top.pc = "menu"
    /\ selected > 0 => win[Top.w].state = "live"
    /\ LET f == Top
           r == rec[f.w]
           id == window_event_id(win[f.w].kind, r, f.w)
       IN /\ mgr' = IF selected > 0
                    THEN callback_proxy(mgr, r.proxy, id, MenuItemClicked(selected), Obj("window", f.w))
                    ELSE mgr
          /\ log' = IF selected > 0
                    THEN Append(log, Logged(r.proxy, id, MenuItemClicked(selected), Obj("window", f.w)))
                    ELSE log
          /\ rec' = [rec EXCEPT ![f.w] = Exit(r)]
          /\ gh' = [gh EXCEPT ![f.w] =
                       [@ EXCEPT !.frees = @ + Frees(r), !.uaf = @ \/ r.alloc = "freed"]]
          /\ stack' = Pop
    /\ UNCHANGED <<menuVars, auxVars, linVars, win, posted, POPUP_COUNTER, received, barVars, macVars>>

\* .unwrap_or_else(|| result = ProcResult::Value(-1)) after catch_unwind: the value
\* the inner procedure returns, result being what the arm had assigned.
unwrap_or_else_keeps(res, result) == result
unwrap_or_else(res, result) == IF res.some THEN result ELSE "-1"

\* The messages whose arm calls the proxy for window w as it stands.
ProxyMsgs(w) ==
    IF win[w].kind = "popup"
    THEN (IF win[w].timer THEN {"WM_TIMER"} ELSE {})
            \cup (IF stack = <<>> THEN PopupMouseMsgs ELSE {})
    ELSE TrayIconMsgs

\* A message is dispatched to a window that has its record, and the proxy panics
\* inside the arm, after the send (sent) or before it. The arm stops there: of its
\* statements only those before the proxy call have run, and result still holds
\* DefWindowProc. catch_unwind keeps the panic, the inner procedure returns, and
\* the procedure runs its tail.
PumpPanic(w, msg, sent) ==
    /\ Pumping /\ Len(stack) < MaxDepth
    /\ win[w].state = "live" /\ win[w].slot
    /\ msg \in ProxyMsgs(w)
    /\ gh[w].panics < MaxPanics
    /\ LET r == rec[w]
           eff == IF win[w].kind = "popup" THEN popup_window_callback_inner(r, msg)
                  ELSE public_window_callback_inner(r, msg)
           id == window_event_id(win[w].kind, r, w)
           e == [id |-> id, ev |-> eff.event, obj |-> Obj("window", w), n |-> Len(log) + 1]
           r1 == [r EXCEPT !.recurse_depth = @ + 1]
           res == Runner_catch_unwind(TRUE)
       IN  /\ mgr' = IF sent THEN [mgr EXCEPT ![r.proxy].queue = Send(@, mgr[r.proxy].alive, e)]
                      ELSE mgr
           /\ log' = IF sent THEN Append(log, Logged(r.proxy, id, eff.event, Obj("window", w)))
                      ELSE log
           /\ win' = [win EXCEPT ![w].timer = @ /\ ~eff.kill_timer,
                                 ![w].active = @ \/ msg \in PopupMouseMsgs]
           /\ rec' = [rec EXCEPT ![w] = Exit(r1)]
           /\ gh' = [gh EXCEPT ![w] =
                        [@ EXCEPT !.lateRead = @ \/ r.userdata_removed,
                                  !.uaf = @ \/ r.alloc = "freed",
                                  !.frees = @ + Frees(r1),
                                  !.panics = @ + 1,
                                  !.panic = [result |-> unwrap_or_else(res, "DefWindowProc"),
                                             entry |-> r.recurse_depth,
                                             exit |-> Exit(r1).recurse_depth,
                                             removed |-> r1.userdata_removed,
                                             freed |-> Exit(r1).alloc = "freed",
                                             panic_error |-> res.panic_error]]]
    /\ UNCHANGED <<menuVars, auxVars, linVars, stack, posted, POPUP_COUNTER, received,
                   barVars, macVars>>

(* ------------------------ manager facade: actions --------------------- *)
\* The sender clone the manager's own callback_proxy keeps alive.
OwnSender_none(alive) == 0
OwnSender(alive) == IF alive THEN 1 ELSE 0

\* Live clones of manager m's sender: the manager's own, those of the window records
\* (event_sender, menu_handler), of the Tray/Popup handles (their proxy field), of
\* the menu bar callbacks, of the macOS handler slot and of the Linux worker threads.
SenderCount(m) ==
    OwnSender(mgr[m].alive)
    + Cardinality({w \in Windows : rec[w].alloc = "live" /\ rec[w].proxy = m})
    + Cardinality({w \in Windows : win[w].handle = "held" /\ win[w].mgr = m})
    + Cardinality({k \in DOMAIN MENU_BAR_CALLBACKS : MENU_BAR_CALLBACKS[k].proxy = m})
    + (IF TRAY_EVENT_HANDLER = m THEN 1 ELSE 0)
    + Cardinality({t \in LinuxTrays : lin[t].mgr = m /\ lin[t].thread \notin {"none", "failed", "done"}})

\* Objects created through manager m that have not been destroyed.
LiveObjects(m) ==
    Cardinality({w \in Windows : win[w].mgr = m /\ win[w].state # "destroyed"})
    + Cardinality({b \in Bars : menubar[b].mgr = m /\ menubar[b].state = "live"})
    + Cardinality({t \in MacTrays : mac[t].mgr = m /\ mac[t].state = "live"})

\* Receiver::try_recv
TryRecv_peeks(q) == q
TryRecv(q) == Tail(q)

\* What Receiver::try_recv returns on queue q when `senders` clones of the sender exist.
try_recv_result(q, senders) ==
    IF q # <<>> THEN "Ok" ELSE IF senders = 0 THEN "Disconnected" ELSE "Empty"

\* What Receiver::recv returns; with an empty queue and a sender left the caller
\* stays parked.
recv_result(q, senders) ==
    IF q # <<>> THEN "Ok" ELSE IF senders = 0 THEN "Disconnected" ELSE "Blocked"

try_recv(m) ==
    /\ stack = <<>>
    /\ mgr[m].alive
    /\ IF try_recv_result(mgr[m].queue, SenderCount(m)) = "Ok"
       THEN /\ mgr' = [mgr EXCEPT ![m].queue = TryRecv(@)]
            /\ received' = [received EXCEPT ![m] = Append(@, Head(mgr[m].queue))]
       ELSE UNCHANGED <<mgr, received>>
    /\ UNCHANGED <<menuVars, auxVars, linVars, winVars, log, barVars, macVars>>

recv(m) ==
    /\ stack = <<>>
    /\ mgr[m].alive
    /\ IF recv_result(mgr[m].queue, SenderCount(m)) = "Ok"
       THEN /\ mgr' = [mgr EXCEPT ![m].queue = Tail(@)]
            /\ received' = [received EXCEPT ![m] = Append(@, Head(mgr[m].queue))]
       ELSE UNCHANGED <<mgr, received>>
    /\ UNCHANGED <<menuVars, auxVars, linVars, winVars, log, barVars, macVars>>

\* The application drops the manager: the receiver and the entries it holds go.
DropManager(m) ==
    /\ stack = <<>>
    /\ mgr[m].alive
    /\ mgr' = [mgr EXCEPT ![m].alive = FALSE, ![m].queue = <<>>]
    /\ UNCHANGED <<menuVars, auxVars, linVars, winVars, received, log, barVars, macVars>>

(* ---------------------- Windows backend: menu bar --------------------- *)
NoBar == [state |-> "none", mgr |-> 0, id |-> 0, hwnd |-> 0, n |-> 0, attached |-> FALSE]

\* The steps of MenuBar::new that can fail, in the order they are taken.
MenuBarFailures == {"parent_window", "CreateMenu", "CreatePopupMenu", "SetMenu"}

\* The codes whose callbacks add_menu_item has stored when MenuBar::new returns:
\* none when CreateMenu fails, those of the top-level menus before the last when
\* CreatePopupMenu fails for the last one, all of them otherwise.
RegisteredCodes(n, fail) ==
    CASE fail \in {"parent_window", "CreateMenu"} -> {}
      [] fail = "CreatePopupMenu" -> 1..(n - 1)
      [] OTHER -> 1..n

\* SetMenu(hwnd, hmenu of bar b): the window shows b's menu and no other;
\* SetMenu(hwnd, null) with b = 0.
SetMenu(bars, hwnd, b) ==
    [x \in Bars |-> IF x = b THEN [bars[x] EXCEPT !.attached = TRUE]
                    ELSE IF bars[x].hwnd = hwnd THEN [bars[x] EXCEPT !.attached = FALSE]
                    ELSE bars[x]]

\* MenuBar::new for n top-level menus of one item each: the id is drawn, IdMap::next
\* hands out the codes 1..n, add_menu_item stores one callback per item under
\* (hwnd, code), SetMenu attaches the menu. fail names the step that fails, if any;
\* a failed call returns Err and the id it drew is never seen by the caller.
MenuBar_new(b, m, hwnd, n, fail) ==
    /\ stack = <<>>
    /\ menubar[b].state = "none"
    /\ mgr[m].alive /\ mgr[m].kind = "menubar"
    /\ fail = "CreatePopupMenu" => n >= 1
    /\ LET id == MB_COUNTER
           made == [state |-> IF fail = "none" THEN "live" ELSE "failed",
                    mgr |-> m, id |-> IF fail = "parent_window" THEN 0 ELSE id,
                    hwnd |-> hwnd, n |-> IF fail = "none" THEN n ELSE 0,
                    attached |-> FALSE]
           bars == [menubar EXCEPT ![b] = made]
       IN  /\ menubar' = IF fail = "none" THEN SetMenu(bars, hwnd, b) ELSE bars
           /\ MB_COUNTER' = IF fail = "parent_window" THEN MB_COUNTER ELSE MB_COUNTER + 1
           /\ MENU_BAR_CALLBACKS' =
                 [k \in DOMAIN MENU_BAR_CALLBACKS
                        \cup {<<hwnd, i>> : i \in RegisteredCodes(n, fail)} |->
                     IF k[1] = hwnd /\ k[2] \in RegisteredCodes(n, fail)
                     THEN [proxy |-> m, menu_bar_id |-> id, bar |-> b, item |-> k[2]]
                     ELSE MENU_BAR_CALLBACKS[k]]
    /\ UNCHANGED <<menuVars, auxVars, linVars, winVars, mgrVars, handled, macVars>>

\* callbacks.get(&(hwnd, command_id)): the callback stored under the pair, if any.
callbacks_get_by_code(cbs, hwnd, command_id) ==
    {cbs[k] : k \in {k \in DOMAIN cbs : k[2] = command_id}}
callbacks_get(cbs, hwnd, command_id) ==
    {cbs[k] : k \in {k \in DOMAIN cbs : k = <<hwnd, command_id>>}}

\* handle_menu_command, the callback found is run: the closure add_menu_item stored
\* calls its proxy with the menu bar id and the item's identifier.
run_callback(hwnd, command_id) ==
    LET found == callbacks_get(MENU_BAR_CALLBACKS, hwnd, command_id)
    IN  IF found # {}
        THEN LET c == CHOOSE c \in found : TRUE
             IN /\ mgr' = callback_proxy(mgr, c.proxy, c.menu_bar_id,
                                         MenuItemClicked(c.item), Obj("menubar", c.bar))
                /\ log' = Append(log, Logged(c.proxy, c.menu_bar_id,
                                             MenuItemClicked(c.item), Obj("menubar", c.bar)))
        ELSE UNCHANGED <<mgr, log>>

\* handle_menu_command: the application forwards WM_COMMAND.
handle_menu_command(hwnd, command_id) ==
    /\ stack = <<>>
    /\ PointerCount < MaxPointer
    /\ run_callback(hwnd, command_id)
    /\ UNCHANGED <<menuVars, auxVars, linVars, winVars, received, barVars, macVars>>

\* The application's window procedure on WM_COMMAND for any window and command id:
\* it calls handle_menu_command and keeps what it returned.
NoCommand == [hwnd |-> 0, command_id |-> 0, result |-> FALSE]

on_WM_COMMAND(hwnd, command_id) ==
    /\ stack = <<>>
    /\ PointerCount < MaxPointer
    /\ run_callback(hwnd, command_id)
    /\ handled' = [hwnd |-> hwnd, command_id |-> command_id,
                   result |-> callbacks_get(MENU_BAR_CALLBACKS, hwnd, command_id) # {}]
    /\ UNCHANGED <<menuVars, auxVars, linVars, winVars, received, menubar, MENU_BAR_CALLBACKS,
                   MB_COUNTER, macVars>>

\* The user picks the item with code command_id in the menu attached to hwnd; the
\* window receives WM_COMMAND and the application forwards it.
WM_COMMAND(hwnd, command_id) ==
    /\ \E b \in Bars : /\ menubar[b].hwnd = hwnd /\ menubar[b].attached
                       /\ command_id \in 1..menubar[b].n
    /\ handle_menu_command(hwnd, command_id)

\* callbacks.retain(|(hwnd, _), _| *hwnd != self.hwnd)
callbacks_retain_all(cbs, hwnd) == cbs
callbacks_retain(cbs, hwnd) == [k \in {k \in DOMAIN cbs : k[1] # hwnd} |-> cbs[k]]

\* MenuBar::remove: SetMenu(hwnd, null), then the callbacks of the window are
\* dropped; the handle stays with the application.
MenuBar_remove(b) ==
    /\ stack = <<>>
    /\ menubar[b].state \in {"live", "removed"}
    /\ menubar' = [SetMenu(menubar, menubar[b].hwnd, 0) EXCEPT ![b].state = "removed"]
    /\ MENU_BAR_CALLBACKS' = callbacks_retain(MENU_BAR_CALLBACKS, menubar[b].hwnd)
    /\ UNCHANGED <<menuVars, auxVars, linVars, winVars, mgrVars, MB_COUNTER, handled, macVars>>

\* Drop for MenuBar: SetMenu(hwnd, null), destroy_menu_tree,
\* callbacks.retain(|(hwnd, _), _| *hwnd != self.hwnd)
MenuBar_drop(b) ==
    /\ stack = <<>>
    /\ menubar[b].state \in {"live", "removed"}
    /\ menubar' = [SetMenu(menubar, menubar[b].hwnd, 0) EXCEPT ![b].state = "dropped"]
    /\ MENU_BAR_CALLBACKS' = callbacks_retain(MENU_BAR_CALLBACKS, menubar[b].hwnd)
    /\ UNCHANGED <<menuVars, auxVars, linVars, winVars, mgrVars, MB_COUNTER, handled, macVars>>

(* --------------------------- macOS backend ---------------------------- *)
\* Tray::new in the order of its steps: MainThreadMarker::new() is asked first and
\* its failure returns the error; then the id is drawn, the handler slot is
\* overwritten, and the status item is made.
Tray_new_steps_checks_late(main_thread) ==
    IF main_thread THEN {"fetch_add", "set_handler", "status_item"}
    ELSE {"fetch_add", "set_handler"}
Tray_new_steps(main_thread) ==
    IF main_thread THEN {"fetch_add", "set_handler", "status_item"} ELSE {}

\* Tray::new: off the main thread it fails before anything is touched; on it, the
\* id is drawn and the thread-local handler slot is overwritten with a closure over
\* this manager's proxy. mac[t] keeps what the call returned.
MacTray_new(t, m, main_thread) ==
    /\ mac[t].state = "none"
    /\ mgr[m].alive /\ mgr[m].kind = "tray"
    /\ LET steps == Tray_new_steps(main_thread)
       IN  /\ mac' = [mac EXCEPT ![t] =
                        IF "status_item" \in steps
                        THEN [state |-> "live", mgr |-> m, id |-> COUNTER]
                        ELSE [state |-> "wrong_thread", mgr |-> 0, id |-> 0]]
           /\ COUNTER' = IF "fetch_add" \in steps THEN COUNTER + 1 ELSE COUNTER
           /\ TRAY_EVENT_HANDLER' = IF "set_handler" \in steps THEN m ELSE TRAY_EVENT_HANDLER
    /\ UNCHANGED <<menuVars, auxVars, linVars, winVars, mgrVars, barVars>>

\* TrayTarget::send_mouse_event: whatever closure the handler slot holds is called.
send_mouse_event(t, button) ==
    /\ mac[t].state = "live"
    /\ PointerCount < MaxPointer
    /\ IF TRAY_EVENT_HANDLER # 0
       THEN /\ mgr' = callback_proxy(mgr, TRAY_EVENT_HANDLER, mac[t].id,
                                     PointerButton(button), Obj("mactray", t))
            /\ log' = Append(log, Logged(TRAY_EVENT_HANDLER, mac[t].id,
                                         PointerButton(button), Obj("mactray", t)))
       ELSE UNCHANGED <<mgr, log>>
    /\ UNCHANGED <<menuVars, auxVars, linVars, winVars, received, barVars, macVars>>

\* Drop for Tray (macOS): the status item is removed; the handler slot stays.
MacTray_drop(t) ==
    /\ mac[t].state = "live"
    /\ mac' = [mac EXCEPT ![t].state = "dropped"]
    /\ UNCHANGED <<menuVars, auxVars, linVars, winVars, mgrVars, barVars, TRAY_EVENT_HANDLER, COUNTER>>

(* --------------------------- Linux backend ---------------------------- *)
\* A Linux tray: the handle (state, shutdown_tx), the worker thread's position in
\* run_dbus_service, the shutdown channel, the D-Bus registrations, what was logged.
NoLinuxTray ==
    [state |-> "none", mgr |-> 0, id |-> 0, thread |-> "none", shutdown_tx |-> "none",
     shutdown |-> 0, interface |-> FALSE, watcher |-> FALSE, logged |-> {}, joined |-> FALSE]

\* The worker thread has returned from run_dbus_service (shutdown_rx is dropped).
ThreadFinished(l) == l.thread \in {"failed", "done"}

\* Tray::new: the id is drawn, the shutdown channel is made, the worker thread is
\* spawned, and Ok(Tray) is returned; nothing of the D-Bus work is awaited.
LinuxTray_new(t, m) ==
    /\ lin[t].state = "none"
    /\ mgr[m].alive /\ mgr[m].kind = "tray"
    /\ lin' = [lin EXCEPT ![t] =
                 [NoLinuxTray EXCEPT !.state = "live", !.mgr = m, !.id = LINUX_COUNTER,
                                     !.thread = "spawned", !.shutdown_tx = "held"]]
    /\ LINUX_COUNTER' = LINUX_COUNTER + 1
    /\ UNCHANGED <<menuVars, auxVars, winVars, mgrVars, barVars, macVars>>

\* run_dbus_service: Connection::session()?; the error is logged by the thread body.
Connection_session(t, ok) ==
    /\ lin[t].thread = "spawned"
    /\ lin' = [lin EXCEPT ![t].thread = IF ok THEN "connected" ELSE "failed",
                          ![t].logged = IF ok THEN @ ELSE @ \cup {"connect"}]
    /\ UNCHANGED <<menuVars, auxVars, LINUX_COUNTER, winVars, mgrVars, barVars, macVars>>

\* run_dbus_service: object_server().at(SNI_OBJECT_PATH, interface)?
object_server_at(t, ok) ==
    /\ lin[t].thread = "connected"
    /\ lin' = [lin EXCEPT ![t].thread = IF ok THEN "serving" ELSE "failed",
                          ![t].interface = ok,
                          ![t].logged = IF ok THEN @ ELSE @ \cup {"interface"}]
    /\ UNCHANGED <<menuVars, auxVars, LINUX_COUNTER, winVars, mgrVars, barVars, macVars>>

\* run_dbus_service: register_with_watcher; a failure is logged and the thread goes on
\* to wait in shutdown_rx.recv().
register_with_watcher(t, ok) ==
    /\ lin[t].thread = "serving"
    /\ lin' = [lin EXCEPT ![t].thread = "waiting",
                          ![t].watcher = ok,
                          ![t].logged = IF ok THEN @ ELSE @ \cup {"register"}]
    /\ UNCHANGED <<menuVars, auxVars, LINUX_COUNTER, winVars, mgrVars, barVars, macVars>>

\* Receiver::recv on the shutdown channel returns: a message is queued, or every
\* sender is gone.
ShutdownReady(l) == l.shutdown > 0 \/ l.shutdown_tx = "dropped"

shutdown_rx_recv(t) ==
    /\ lin[t].thread = "waiting"
    /\ ShutdownReady(lin[t])
    /\ lin' = [lin EXCEPT ![t].thread = "woken",
                          ![t].shutdown = IF @ > 0 THEN @ - 1 ELSE @]
    /\ UNCHANGED <<menuVars, auxVars, LINUX_COUNTER, winVars, mgrVars, barVars, macVars>>

\* Where the thread goes after unregister_from_watcher returned: on, in both cases.
after_unregister_propagates(ok) == IF ok THEN "unregistered" ELSE "failed"
after_unregister(ok) == "unregistered"

\* run_dbus_service: if let Err(e) = unregister_from_watcher(..) { warn!(..) }
unregister_from_watcher(t, ok) ==
    /\ lin[t].thread = "woken"
    /\ lin' = [lin EXCEPT ![t].thread = after_unregister(ok),
                          ![t].watcher = IF ok THEN FALSE ELSE @,
                          ![t].logged = IF ok THEN @ ELSE @ \cup {"unregister"}]
    /\ UNCHANGED <<menuVars, auxVars, LINUX_COUNTER, winVars, mgrVars, barVars, macVars>>

\* run_dbus_service: object_server().remove(SNI_OBJECT_PATH), then the thread returns
\* and the connection is dropped.
object_server_remove(t) ==
    /\ lin[t].thread = "unregistered"
    /\ lin' = [lin EXCEPT ![t].thread = "done", ![t].interface = FALSE]
    /\ UNCHANGED <<menuVars, auxVars, LINUX_COUNTER, winVars, mgrVars, barVars, macVars>>

\* Drop for Tray, first half: shutdown_tx.take() is sent on and dropped. The send
\* fails, unnoticed, when the thread has returned.
LinuxTray_drop(t) ==
    /\ lin[t].state = "live"
    /\ lin' = [lin EXCEPT ![t].state = "dropping",
                          ![t].shutdown_tx = "dropped",
                          ![t].shutdown = IF ThreadFinished(lin[t]) THEN @ ELSE @ + 1]
    /\ UNCHANGED <<menuVars, auxVars, LINUX_COUNTER, winVars, mgrVars, barVars, macVars>>

\* Drop for Tray, second half: the thread is polled for up to 500 ms and joined
\* if it finished in time; otherwise a warning is logged and it is left running.
LinuxTray_drop_returns(t, timed_out) ==
    /\ lin[t].state = "dropping"
    /\ ThreadFinished(lin[t]) \/ timed_out
    /\ lin' = [lin EXCEPT ![t].state = "dropped",
                          ![t].joined = ThreadFinished(lin[t]),
                          ![t].logged = IF ThreadFinished(lin[t]) THEN @ ELSE @ \cup {"timeout"}]
    /\ UNCHANGED <<menuVars, auxVars, LINUX_COUNTER, winVars, mgrVars, barVars, macVars>>

\* StatusNotifierItemInterface::activate / secondary_activate / scroll: the bus
\* delivers a call while the interface is registered.
activate(t, button) ==
    /\ lin[t].interface
    /\ PointerCount < MaxPointer
    /\ mgr' = callback_proxy(mgr, lin[t].mgr, lin[t].id, PointerButton(button), Obj("linuxtray", t))
    /\ log' = Append(log, Logged(lin[t].mgr, lin[t].id, PointerButton(button), Obj("linuxtray", t)))
    /\ UNCHANGED <<menuVars, auxVars, linVars, winVars, received, barVars, macVars>>

(* -------- the proxy on another thread, and the application's loop ------ *)
\* The statements of the closure TrayManager::new stores in callback_proxy, in
\* the order it runs them.
proxy_steps_wake_first == <<"wake_up", "send">>
proxy_steps == <<"send", "wake_up">>

NoCall == [pc |-> 0, ev |-> NoEvent]

\* The bus delivers Activate to the tray's interface on one of its threads; the
\* method builds the event and enters the proxy.
activate_enter(t, button) ==
    /\ lin[t].interface
    /\ dbus_call[t].pc = 0
    /\ PointerCount + Cardinality({u \in LinuxTrays : dbus_call[u].pc = 1}) < MaxPointer
    /\ dbus_call' = [dbus_call EXCEPT ![t] = [pc |-> 1, ev |-> PointerButton(button)]]
    /\ UNCHANGED <<iconVars, popupVars, loop_pc, wakes_seen, menuVars, linVars, winVars, mgrVars,
                   barVars, macVars>>

\* The thread runs the next statement of the proxy: sender.send((id, event)), or
\* proxy.wake_up(); after the last one the method returns.
proxy_step(t) ==
    /\ dbus_call[t].pc > 0
    /\ LET c == dbus_call[t]
           m == lin[t].mgr
           e == [id |-> lin[t].id, ev |-> c.ev, obj |-> Obj("linuxtray", t), n |-> Len(log) + 1]
       IN  /\ IF proxy_steps[c.pc] = "send"
              THEN /\ mgr' = [mgr EXCEPT ![m].queue = Send(@, mgr[m].alive, e),
                                           ![m].errors = tracing_error(@, mgr[m].alive)]
                   /\ log' = Append(log, Logged(m, lin[t].id, c.ev, Obj("linuxtray", t)))
              ELSE /\ mgr' = [mgr EXCEPT ![m].wakes = wake_up(@)]
                   /\ log' = log
           /\ dbus_call' = [dbus_call EXCEPT ![t] =
                               IF c.pc = Len(proxy_steps) THEN NoCall ELSE [c EXCEPT !.pc = @ + 1]]
    /\ UNCHANGED <<iconVars, popupVars, loop_pc, wakes_seen, menuVars, linVars, winVars, received,
                   barVars, macVars>>

\* The event loop takes the wake-ups signalled so far and calls proxy_wake_up.
proxy_wake_up(m) ==
    /\ loop_pc = 0
    /\ mgr[m].alive
    /\ mgr[m].wakes > wakes_seen[m]
    /\ wakes_seen' = [wakes_seen EXCEPT ![m] = mgr[m].wakes]
    /\ loop_pc' = m
    /\ UNCHANGED <<iconVars, popupVars, dbus_call, menuVars, linVars, winVars, mgrVars, barVars, macVars>>

\* while let Ok((_id, event)) = self.tray_manager.try_recv() { .. }: one turn of the
\* loop, or its end when try_recv returns an error.
proxy_wake_up_drain(m) ==
    /\ loop_pc = m
    /\ IF try_recv_result(mgr[m].queue, SenderCount(m)) = "Ok"
       THEN /\ mgr' = [mgr EXCEPT ![m].queue = TryRecv(@)]
            /\ received' = [received EXCEPT ![m] = Append(@, Head(mgr[m].queue))]
            /\ loop_pc' = m
       ELSE /\ loop_pc' = 0
            /\ UNCHANGED <<mgr, received>>
    /\ UNCHANGED <<iconVars, popupVars, dbus_call, wakes_seen, menuVars, linVars, winVars, log,
                   barVars, macVars>>

(* ------------------ Linux backend: icons (util.rs) -------------------- *)
\* An Icon: an RgbaIcon of width x height pixels, four bytes each, or an icon of
\* another provider.
NoIcon == [kind |-> "other", width |-> 0, height |-> 0, buffer |-> <<>>]
ByteValues == {0, 128, 255}
IconSizes == {wh \in (1..MaxPixels) \X (1..MaxPixels) : wh[1] * wh[2] <= MaxPixels}
Icons ==
    {NoIcon} \cup
    UNION {{[kind |-> "rgba", width |-> wh[1], height |-> wh[2], buffer |-> buf] :
               buf \in [1..(4 * wh[1] * wh[2]) -> ByteValues]} : wh \in IconSizes}

NoSniIcon == [some |-> FALSE, width |-> 0, height |-> 0, data |-> <<>>]

\* ((a as u32) << 24) | ((r as u32) << 16) | ((g as u32) << 8) | (b as u32): the four
\* bytes occupy disjoint bits, so the or is their sum. The u32 is kept as its upper
\* and lower 16 bits.
pack_rgba(r, g, b, a) == [hi |-> (r * 256 + g) % 65536, lo |-> (b * 256 + a) % 65536]
pack_argb(r, g, b, a) == [hi |-> (a * 256 + r) % 65536, lo |-> (g * 256 + b) % 65536]

\* u32::to_be_bytes
to_be_bytes(x) ==
    <<x.hi \div 256, x.hi % 256, x.lo \div 256, x.lo % 256>>

\* for chunk in buffer.chunks_exact(4) { .. argb_data.extend_from_slice(..) }
RECURSIVE convert_chunks(_)
convert_chunks(buffer) ==
    IF Len(buffer) < 4 THEN <<>>
    ELSE to_be_bytes(pack_argb(buffer[1], buffer[2], buffer[3], buffer[4]))
            \o convert_chunks(SubSeq(buffer, 5, Len(buffer)))

icon_to_sni_icon(ic) ==
    IF ic.kind # "rgba" THEN NoSniIcon
    ELSE [some |-> TRUE, width |-> ic.width, height |-> ic.height,
          data |-> convert_chunks(ic.buffer)]

\* The tray's interface is built with the icon of the attributes.
convert_icon ==
    /\ ~sni_icon.some
    /\ sni_icon' = icon_to_sni_icon(icon)
    /\ UNCHANGED <<icon, loopVars, popupVars, menuVars, linVars, winVars, mgrVars, barVars, macVars>>

(* ---------------- Windows backend: context menu (menu.rs) ------------- *)
MaxEntries == 3
MaxSubItems == 2
MaxShows == 2

MenuIds == {"A", "B"}

\* MenuEntry<T>: Item, Separator, Submenu.
Item(id) == [kind |-> "Item", id |-> id, items |-> <<>>]
Separator == [kind |-> "Separator", id |-> "-", items |-> <<>>]
Submenu(its) == [kind |-> "Submenu", id |-> "-", items |-> its]

SeqsUpTo(S, n) == UNION {[1..k -> S] : k \in 0..n}
LeafEntries == {Item(i) : i \in MenuIds} \cup {Separator}
NestedEntries ==
    {Submenu(<<Submenu(<<Item("A")>>)>>), Submenu(<<Item("A"), Submenu(<<Item("B")>>)>>)}
MenuChoices ==
    SeqsUpTo(LeafEntries \cup {Submenu(s) : s \in SeqsUpTo(LeafEntries, MaxSubItems)}
                         \cup NestedEntries,
             MaxEntries)

\* Option<T>
None == [some |-> FALSE, id |-> "-"]
Some(x) == [some |-> TRUE, id |-> x]

\* IdMap::new, IdMap::insert (returns the code and leaves the grown map), IdMap::get
IdMap_new == <<>>
IdMap_insert_from_zero(ids, id) == [ids |-> Append(ids, id), index |-> Len(ids)]
IdMap_insert(ids, id) == [ids |-> Append(ids, id), index |-> Len(ids) + 1]
IdMap_get_zero_based(ids, index) ==
    IF index < Len(ids) THEN Some(ids[index + 1]) ELSE None
IdMap_get(ids, index) ==
    IF index = 0 THEN None
    ELSE IF index - 1 < Len(ids) THEN Some(ids[index]) ELSE None

\* A native menu: null, or the entries appended with AppendMenuW.
NullMenu == [null |-> TRUE, entries |-> <<>>]
Native(kind, code, sub) == [kind |-> kind, code |-> code, sub |-> sub]

RECURSIVE AppendEntries(_, _, _)
add_menu_item(entries, item, ids) ==
    LET r == IdMap_insert(ids, item.id)
    IN  [entries |-> Append(entries, Native("MF_STRING", r.index, <<>>)), id_map |-> r.ids]
add_submenu(entries, submenu, ids) ==
    LET child == AppendEntries(<<>>, submenu.items, ids)
    IN  [entries |-> Append(entries, Native("MF_POPUP", 0, child.entries)),
         id_map |-> child.id_map]
add_separator_takes_code(entries, ids) ==
    [entries |-> Append(entries, Native("MF_SEPARATOR", 0, <<>>)),
     id_map |-> IdMap_insert(ids, "-").ids]
add_separator(entries, ids) ==
    [entries |-> Append(entries, Native("MF_SEPARATOR", 0, <<>>)), id_map |-> ids]
\* the loop of build_popup_menu over the entries left
AppendEntries(entries, its, ids) ==
    IF its = <<>> THEN [entries |-> entries, id_map |-> ids]
    ELSE LET e == Head(its)
             s == CASE e.kind = "Item" -> add_menu_item(entries, e, ids)
                    [] e.kind = "Submenu" -> add_submenu(entries, e, ids)
                    [] OTHER -> add_separator(entries, ids)
         IN  AppendEntries(s.entries, Tail(its), s.id_map)
\* build_popup_menu: CreatePopupMenu, then the loop; a null handle when it fails.
build_popup_menu(its, ids, create_ok) ==
    IF ~create_ok THEN [hmenu |-> NullMenu, id_map |-> ids]
    ELSE LET b == AppendEntries(<<>>, its, ids)
         IN  [hmenu |-> [null |-> FALSE, entries |-> b.entries], id_map |-> b.id_map]

\* Command codes TrackPopupMenu can return for a menu: those of its string items.
RECURSIVE NativeCodes(_)
NativeCodes(entries) ==
    IF entries = <<>> THEN <<>>
    ELSE LET e == Head(entries)
         IN  (CASE e.kind = "MF_STRING" -> <<e.code>>
                [] e.kind = "MF_POPUP" -> NativeCodes(e.sub)
                [] OTHER -> <<>>) \o NativeCodes(Tail(entries))
Range(q) == {q[i] : i \in DOMAIN q}

\* destroy_menu_tree: for each position of the menu, GetSubMenu and the recursive call
\* when it is not null; then DestroyMenu(hmenu). A handle is named by the positions
\* that lead to it from the root; the result is the order of the DestroyMenu calls.
RECURSIVE destroy_menu_tree(_, _), destroy_submenus(_, _, _)
destroy_submenus(entries, path, i) ==
    IF i > Len(entries) THEN <<>>
    ELSE (IF entries[i].kind = "MF_POPUP"
          THEN destroy_menu_tree(entries[i].sub, Append(path, i))
          ELSE <<>>) \o destroy_submenus(entries, path, i + 1)
destroy_menu_tree_top_down(entries, path) ==
    <<path>> \o destroy_submenus(entries, path, 1)
destroy_menu_tree(entries, path) ==
    destroy_submenus(entries, path, 1) \o <<path>>

\* The tail of show_context_menu_with_alignment: the value returned for a code.
context_menu_result_unchecked(ids, code) == IdMap_get(ids, IF code > 0 THEN code ELSE 1)
context_menu_result(ids, code) == IF code > 0 THEN IdMap_get(ids, code) ELSE None

\* show_context_menu up to the blocking TrackPopupMenu call; returns None at once
\* when the native menu could not be created.
show_context_menu(create_ok) ==
    /\ menu_pc = "idle"
    /\ Len(log) < MaxShows
    /\ LET b == build_popup_menu(items, IdMap_new, create_ok)
       IN  /\ hmenu' = b.hmenu
           /\ id_map' = b.id_map
           /\ menu_pc' = IF b.hmenu.null THEN "idle" ELSE "tracking"
           /\ menu_ret' = None
           /\ menu_selected' = 0
           /\ destroyed' = <<>>
    /\ UNCHANGED <<items, auxVars, linVars, winVars, mgrVars, barVars, macVars>>

\* TrackPopupMenu returns; destroy_menu_tree; the lookup; the tray's menu handler
\* passes a Some(id) on as MenuItemClicked.
TrackPopupMenu_returns(code) ==
    /\ menu_pc = "tracking"
    /\ code \in {0} \cup Range(NativeCodes(hmenu.entries))
    /\ LET ret == context_menu_result(id_map, code)
       IN  /\ menu_ret' = ret
           /\ menu_selected' = code
           /\ destroyed' = destroy_menu_tree(hmenu.entries, <<>>)
           /\ hmenu' = NullMenu
           /\ menu_pc' = "idle"
           /\ mgr' = IF ret.some
                     THEN callback_proxy(mgr, 1, AppHwnd, MenuItemClicked(ret.id), Obj("window", AppHwnd))
                     ELSE mgr
           /\ log' = IF ret.some
                     THEN Append(log, Logged(1, AppHwnd, MenuItemClicked(ret.id), Obj("window", AppHwnd)))
                     ELSE log
    /\ UNCHANGED <<items, auxVars, id_map, linVars, received, winVars, barVars, macVars>>

InitNoMenu ==
    /\ items = <<>>
    /\ id_map = <<>>
    /\ hmenu = NullMenu
    /\ menu_pc = "idle"
    /\ menu_selected = 0
    /\ menu_ret = None
    /\ destroyed = <<>>

(* ------------- macOS backend: context menu (context_menu.rs) ---------- *)
MaxMacEntries == 2     \* entries of a context menu
MaxMacShows == 3       \* show_context_menu_at_location calls in one run
MaxMacMenuDepth == 2   \* calls blocked in popUpMenu at a time, one inside the other

MacMenus == SeqsUpTo(LeafEntries \cup {Submenu(<<Item("B")>>)}, MaxMacEntries)

\* build_menu_for_popup: an item gets the tag id_map.len() + 1 and its id is pushed;
\* a submenu's items go on in the same id_map; a separator takes no tag.
RECURSIVE build_menu_for_popup(_, _)
build_menu_for_popup(its, ids) ==
    IF its = <<>> THEN ids
    ELSE LET e == Head(its)
         IN  build_menu_for_popup(Tail(its),
                CASE e.kind = "Item" -> Append(ids, e.id)
                  [] e.kind = "Submenu" -> build_menu_for_popup(e.items, ids)
                  [] OTHER -> ids)

\* PopupMenuTarget::menu_item_clicked for an item of the given tag.
menu_item_clicked(result, tag) == IF tag > 0 THEN Some(tag) ELSE result

\* result.borrow_mut().take(): the value taken and what the slot is left with.
Option_take_leaves(result) == [value |-> result, left |-> result]
Option_take(result) == [value |-> result, left |-> None]

\* .and_then(|tag| if tag > 0 && tag <= id_map.len() { Some(id_map[tag - 1]) } else { None })
popup_menu_lookup(taken, ids) ==
    IF taken.some /\ taken.id > 0 /\ taken.id <= Len(ids) THEN Some(ids[taken.id]) ELSE None

NoPopupReturn == [shows |-> 0, items |-> <<>>, picked |-> 0, value |-> None]

\* show_context_menu_at_location up to the blocking popUpMenuPositioningItem call:
\* None at once for an empty menu; else the menu is built and the slot is cleared.
show_context_menu_at_location(its) ==
    /\ Len(popup_calls) < MaxMacMenuDepth
    /\ popup_ret.shows + Len(popup_calls) < MaxMacShows
    /\ IF its = <<>>
       THEN /\ popup_ret' = [shows |-> popup_ret.shows + 1, items |-> its, picked |-> 0,
                             value |-> None]
            /\ UNCHANGED <<POPUP_MENU_RESULT, popup_calls>>
       ELSE /\ POPUP_MENU_RESULT' = None
            /\ popup_calls' = Append(popup_calls,
                                     [items |-> its, id_map |-> build_menu_for_popup(its, <<>>)])
            /\ UNCHANGED popup_ret
    /\ UNCHANGED <<iconVars, loopVars, menuVars, linVars, winVars, mgrVars, barVars, macVars>>

\* popUpMenuPositioningItem returns in the innermost call: the user picked the item
\* of the given tag, whose action ran before the return, or dismissed the menu
\* (tag 0); the slot is taken and the tag looked up.
popUpMenuPositioningItem_returns(tag) ==
    /\ popup_calls # <<>>
    /\ LET c == popup_calls[Len(popup_calls)]
           clicked == IF tag > 0 THEN menu_item_clicked(POPUP_MENU_RESULT, tag)
                      ELSE POPUP_MENU_RESULT
           taken == Option_take(clicked)
       IN  /\ tag \in 0..Len(c.id_map)
           /\ POPUP_MENU_RESULT' = taken.left
           /\ popup_calls' = SubSeq(popup_calls, 1, Len(popup_calls) - 1)
           /\ popup_ret' = [shows |-> popup_ret.shows + 1, items |-> c.items, picked |-> tag,
                            value |-> popup_menu_lookup(taken.value, c.id_map)]
    /\ UNCHANGED <<iconVars, loopVars, menuVars, linVars, winVars, mgrVars, barVars, macVars>>

(* --------------------------- initial states --------------------------- *)
WinManagerKind(m) ==
    CASE m = 1 -> "tray" [] m = 2 -> "popup" [] m = 3 -> "menubar" [] OTHER -> "popup"
MacManagerKind(m) == "tray"
WinManagers == [m \in Managers |-> WinManagerKind(m)]
MacManagers == [m \in Managers |-> MacManagerKind(m)]

InitManagers(kinds) ==
    /\ mgr = [m \in Managers |-> [kind |-> kinds[m], alive |-> TRUE, queue |-> <<>>, wakes |-> 0,
                                  errors |-> 0]]
    /\ received = [m \in Managers |-> <<>>]
    /\ log = <<>>

InitNative ==
    /\ win = [w \in Windows |-> NoWindow]
    /\ rec = [w \in Windows |-> NoRecord]
    /\ gh = [w \in Windows |-> NoHistory]
    /\ stack = <<>>
    /\ posted = <<>>
    /\ POPUP_COUNTER = 1
    /\ menubar = [b \in Bars |-> NoBar]
    /\ MENU_BAR_CALLBACKS = <<>>
    /\ MB_COUNTER = 1
    /\ handled = NoCommand
    /\ mac = [t \in MacTrays |-> [state |-> "none", mgr |-> 0, id |-> 0]]
    /\ TRAY_EVENT_HANDLER = 0
    /\ COUNTER = 1
    /\ lin = [t \in LinuxTrays |-> NoLinuxTray]
    /\ LINUX_COUNTER = 1

InitNoIcon ==
    /\ icon = NoIcon
    /\ sni_icon = NoSniIcon

InitLoop ==
    /\ dbus_call = [t \in LinuxTrays |-> NoCall]
    /\ loop_pc = 0
    /\ wakes_seen = [m \in Managers |-> 0]

InitPopupMenu ==
    /\ POPUP_MENU_RESULT = None
    /\ popup_calls = <<>>
    /\ popup_ret = NoPopupReturn

InitObjects == InitNative /\ InitNoIcon /\ InitLoop /\ InitPopupMenu

Init == InitManagers(WinManagers) /\ InitObjects /\ InitNoMenu
InitMac == InitManagers(MacManagers) /\ InitObjects /\ InitNoMenu

(* ------------- Windows build: one window's procedure in full ---------- *)
NextLifecycle ==
    \/ \E w \in 1..MaxNested, m \in Managers, c \in BOOLEAN, a \in BOOLEAN, u \in BOOLEAN :
          init_popup(w, m, c, a, u, FALSE)
    \/ \E w \in 1..MaxNested, m \in Managers, u \in BOOLEAN : init(w, m, u, FALSE)
    \/ \E w \in Windows : close(w)
    \/ \E w \in Windows : DropPopup(w)
    \/ \E w \in Windows : DropTray(w)
    \/ PumpPosted
    \/ \E w \in Windows : PumpTimer(w)
    \/ \E w \in Windows : PumpDeactivate(w)
    \/ \E w \in Windows, msg \in PopupMouseMsgs : PumpMouse(w, msg)
    \/ \E w \in Windows, msg \in TrayIconMsgs : PumpTrayIcon(w, msg)
    \/ DestroyWindowSend
    \/ DestroyWindowReturn
    \/ \E selected \in 0..1 : TrackPopupMenuReturn(selected)

SpecLifecycle == Init /\ [][NextLifecycle]_vars

(* ------ Windows build: several objects and managers, and the reader ---- *)
Next ==
    \/ \E w \in Windows, m \in Managers : init_popup(w, m, FALSE, FALSE, FALSE, FALSE)
    \/ \E w \in Windows, m \in Managers : init(w, m, FALSE, FALSE)
    \/ \E w \in Windows : DropPopup(w)
    \/ \E w \in Windows : DropTray(w)
    \/ PumpPosted
    \/ \E w \in Windows : PumpMouse(w, "WM_LBUTTONDOWN")
    \/ \E w \in Windows : PumpTrayIcon(w, "WM_USER_TRAYICON:WM_LBUTTONDOWN")
    \/ DestroyWindowSend
    \/ DestroyWindowReturn
    \/ \E b \in MenuBars, m \in Managers, n \in 1..MaxItems : MenuBar_new(b, m, AppHwnd, n, "none")
    \/ \E c \in 1..MaxItems : handle_menu_command(AppHwnd, c)
    \/ \E b \in MenuBars : MenuBar_drop(b)
    \/ \E m \in Managers : try_recv(m)
    \/ \E m \in Managers : recv(m)
    \/ \E m \in Managers : DropManager(m)

Spec == Init /\ [][Next]_vars

(* ------------------------------ macOS build --------------------------- *)
NextMac ==
    \/ \E t \in MacTrays, m \in Managers, main \in BOOLEAN : MacTray_new(t, m, main)
    \/ \E t \in MacTrays : send_mouse_event(t, "Left")
    \/ \E t \in MacTrays : MacTray_drop(t)
    \/ \E m \in Managers : try_recv(m)
    \/ \E m \in Managers : DropManager(m)

SpecMac == InitMac /\ [][NextMac]_vars

(* ---------------------- what the properties speak of ------------------ *)
Popups == {w \in Windows : win[w].kind = "popup"}

\* Dispatch frames of window w that have not returned.
FramesOf(w) == {i \in 1..Len(stack) : stack[i].w = w}

\* Nothing of window w is in flight: no frame, no posted message.
Quiet(w) == FramesOf(w) = {} /\ \A i \in 1..Len(posted) : posted[i].w # w

\* Proxy invocations that carried a Closed event of window w.
ClosedLog(w) ==
    {i \in 1..Len(log) : log[i].obj = Obj("window", w) /\ log[i].ev.tag = "Closed"}

\* Invocations of manager m's proxy made while the manager was alive.
Enqueued(m) == {i \in 1..Len(log) : log[i].m = m /\ log[i].ok}

\* Every entry manager m's reader has seen or will see, oldest first.
Stream(m) == received[m] \o mgr[m].queue

\* What id() of the object's handle returns: the window handle value for a Windows
\* tray, the number drawn from the kind's counter for every other object.
Handle_id(obj) ==
    CASE obj.kind = "window" ->
            IF win[obj.i].kind = "popup" THEN rec[obj.i].popup_id ELSE obj.i
      [] obj.kind = "menubar" -> menubar[obj.i].id
      [] obj.kind = "mactray" -> mac[obj.i].id
      [] OTHER -> lin[obj.i].id

\* The manager through which an object was created.
Creator(obj) ==
    CASE obj.kind = "window" -> win[obj.i].mgr
      [] obj.kind = "menubar" -> menubar[obj.i].mgr
      [] obj.kind = "mactray" -> mac[obj.i].mgr
      [] OTHER -> lin[obj.i].mgr

\* Manager m has created at least one object.
HadObjects(m) ==
    \/ \E w \in Windows : win[w].mgr = m
    \/ \E b \in Bars : menubar[b].mgr = m
    \/ \E t \in MacTrays : mac[t].mgr = m

(* ------------------------------ properties ---------------------------- *)
\* C1: a record is freed only by the outermost frame: a freed record has
\* userdata_removed set, recurse_depth 0 and no frame of its window left on the
\* stack, it was freed once, and while recurse_depth > 0 the record is allocated --
\* also when the destroy request was handled in a nested frame.
C1_FreedOnlyByOutermostFrame ==
    \A w \in Windows :
        /\ rec[w].alloc = "freed" =>
              /\ rec[w].userdata_removed
              /\ rec[w].recurse_depth = 0
              /\ FramesOf(w) = {}
              /\ gh[w].frees = 1
        /\ rec[w].recurse_depth > 0 => rec[w].alloc = "live"
        /\ FramesOf(w) # {} => rec[w].alloc = "live"

\* C1, the case: the destroy request was handled two frames deep, and the record
\* has been freed since.
C1_NestedDestroyThenFreed ==
    \E w \in Windows : gh[w].destroyDepth >= 2 /\ rec[w].alloc = "freed"

\* C2: once a window with a record (tray or popup) has been destroyed and all its
\* frames have returned, its record has been freed exactly once.
C2_RecordFreedExactlyOnce ==
    \A w \in Windows :
        (win[w].state = "destroyed" /\ FramesOf(w) = {}) => gh[w].frees = 1

\* C3: once a popup's destroy request has been handled, the slot is cleared, no
\* message of that window reads the record or sends an event through it, and a
\* freed record is never dereferenced.
C3_NoDispatchAfterDestroyRequest ==
    \A w \in Popups :
        /\ rec[w].userdata_removed => ~win[w].slot
        /\ ~gh[w].lateRead
        /\ ~gh[w].uaf

\* C3, the case: a message of a popup arrived after its destroy request and went to
\* default handling; the record has been freed.
C3_LateMessageDefaulted ==
    \E w \in Popups : gh[w].lateDefault /\ rec[w].alloc = "freed"

\* C4: two close requests posted to one live popup (close twice, or close and drop),
\* once nothing of the window is in flight, have produced exactly one Closed event
\* and exactly one destruction.
C4_IdempotentClose ==
    \A w \in Popups :
        (gh[w].closeReqs >= 2 /\ Quiet(w)) =>
            /\ Cardinality(ClosedLog(w)) = 1
            /\ gh[w].destroyCalls = 1
            /\ win[w].state = "destroyed"
            /\ gh[w].frees = 1

\* C4, the case: two close requests were posted, the first of them was the trigger
\* that destroyed the popup, and nothing is in flight any more.
C4_ClosedTwiceAndSettled ==
    \E w \in Popups :
        /\ gh[w].closeReqs >= 2 /\ Quiet(w)
        /\ gh[w].firstTrigger = "Explicit"
        /\ win[w].state = "destroyed"

\* C5: whatever close triggers reach a popup, at most one Closed event is sent for
\* it, its reason is that of the first trigger dispatched, and the record is freed
\* at most once.
C5_AtMostOneClosed ==
    \A w \in Popups :
        /\ Cardinality(ClosedLog(w)) <= 1
        /\ \A i \in ClosedLog(w) : log[i].ev.arg = gh[w].firstTrigger
        /\ \A i \in ClosedLog(w) : log[i].id = rec[w].popup_id
        /\ gh[w].frees <= 1

\* C5, the case: a second trigger was dispatched after destruction had begun.
C5_SecondTriggerAfterDestroy ==
    \E w \in Popups :
        gh[w].lateTrigger /\ Cardinality(ClosedLog(w)) = 1 /\ rec[w].alloc = "freed"

\* C6: in what a manager's reader receives, the entries of one object come in the
\* order in which the native layer delivered them.
C6_FifoPerObject ==
    \A m \in Managers :
        \A i, j \in 1..Len(Stream(m)) :
            (i < j /\ Stream(m)[i].obj = Stream(m)[j].obj) => Stream(m)[i].n < Stream(m)[j].n

\* C6, the case: a reader has received two entries of one object with an entry of
\* another object between them.
C6_InterleavedReceived ==
    \E m \in Managers :
        \E i, j, k \in 1..Len(received[m]) :
            /\ i < j /\ j < k
            /\ received[m][i].obj = received[m][k].obj
            /\ received[m][j].obj # received[m][i].obj

\* C7: while the manager is alive, the entries received and those still queued are
\* exactly the invocations of its proxy, each once; try_recv reports Empty exactly
\* when the queue is empty, so after n invocations n calls succeed and the next
\* reports Empty.
C7_EachEntryOnce ==
    \A m \in Managers :
        mgr[m].alive =>
            /\ Len(Stream(m)) = Cardinality(Enqueued(m))
            /\ {Stream(m)[i].n : i \in 1..Len(Stream(m))} = Enqueued(m)
            /\ \A i \in 1..Len(Stream(m)) :
                  /\ Stream(m)[i].id = log[Stream(m)[i].n].id
                  /\ Stream(m)[i].ev = log[Stream(m)[i].n].ev
            /\ (try_recv_result(mgr[m].queue, SenderCount(m)) = "Empty")
                  <=> (mgr[m].queue = <<>>)
            /\ (Len(received[m]) = Cardinality(Enqueued(m)))
                  => try_recv_result(mgr[m].queue, SenderCount(m)) = "Empty"

\* C7, the case: a live manager's reader has drained two entries and the next call
\* reports Empty.
C7_DrainedThenEmpty ==
    \E m \in Managers :
        /\ mgr[m].alive
        /\ Len(received[m]) >= 2
        /\ try_recv_result(mgr[m].queue, SenderCount(m)) = "Empty"

\* C8: a step that adds an entry to a manager's queue also signals the host loop
\* once, for a manager of any kind.
C8_EnqueueThenWake ==
    [][\A m \in Managers :
          Len(mgr'[m].queue) > Len(mgr[m].queue) => mgr'[m].wakes = mgr[m].wakes + 1]_vars

\* C8, the case: a tray, a popup and a menu bar manager have each had an entry
\* enqueued and the loop signalled.
C8_EveryKindWoken ==
    \A k \in {"tray", "popup", "menubar"} :
        \E m \in Managers :
            mgr[m].kind = k /\ Len(Stream(m)) >= 1 /\ mgr[m].wakes >= 1

\* C9: every entry in a manager's queue comes from an object created through that
\* manager.
C9_FanIn ==
    \A m \in Managers :
        \A i \in 1..Len(Stream(m)) : Creator(Stream(m)[i].obj) = m

\* C10 as stated: once all objects a manager created have been destroyed and its
\* queue is empty, recv reports Disconnected.
C10_DisconnectedAfterObjectsGone ==
    \A m \in Managers :
        (mgr[m].alive /\ HadObjects(m) /\ LiveObjects(m) = 0 /\ mgr[m].queue = <<>>)
            => recv_result(mgr[m].queue, SenderCount(m)) = "Disconnected"

\* C10: a live manager holds a clone of the sender itself, so recv and try_recv never
\* report Disconnected while it is alive: with an empty queue recv stays parked and
\* try_recv reports Empty, also after all its objects have been destroyed.
C10_NeverDisconnectedWhileAlive ==
    \A m \in Managers :
        mgr[m].alive =>
            /\ SenderCount(m) >= 1
            /\ recv_result(mgr[m].queue, SenderCount(m)) # "Disconnected"
            /\ try_recv_result(mgr[m].queue, SenderCount(m)) # "Disconnected"
            /\ mgr[m].queue = <<>> => recv_result(mgr[m].queue, SenderCount(m)) = "Blocked"

\* C10, the case: all objects of a live manager have been destroyed, the reader has
\* drained the queue, and recv stays parked.
C10_ObjectsGoneRecvParked ==
    \E m \in Managers :
        /\ mgr[m].alive /\ HadObjects(m) /\ LiveObjects(m) = 0
        /\ received[m] # <<>> /\ mgr[m].queue = <<>>
        /\ recv_result(mgr[m].queue, SenderCount(m)) = "Blocked"

\* The reason a popup procedure's destroy arm gives for message msg.
ReasonOf(msg) ==
    CASE msg = "WM_TIMER" -> "Timeout"
      [] msg = "POPUP_CLOSE_MSG" -> "Explicit"
      [] OTHER -> "ClickOutside"

\* C11: the dispatch of a popup's auto-dismiss timer kills the timer, sends
\* Closed{Timeout} and calls DestroyWindow within that one dispatch; the dispatch of
\* the close message does the same with Closed{Explicit}; and whenever a popup
\* stops being a live window its Closed event has already been sent.
C11_ClosedWithinDestroyDispatch ==
    [][\A w \in Windows :
          /\ (win[w].kind = "popup" /\ gh'[w].destroyCalls > gh[w].destroyCalls) =>
                LET f == stack'[Len(stack')]
                    e == log'[Len(log')]
                IN  /\ f.w = w /\ f.pc = "destroy"
                    /\ win'[w].state = "destroying"
                    /\ Len(log') = Len(log) + 1
                    /\ e.obj = Obj("window", w) /\ e.ev = Closed(ReasonOf(f.msg))
                    /\ e.id = rec[w].popup_id
                    /\ mgr'[e.m].queue = Append(mgr[e.m].queue,
                                               [id |-> e.id, ev |-> e.ev, obj |-> e.obj, n |-> e.n])
                    /\ f.msg = "WM_TIMER" => ~win'[w].timer
          /\ (win[w].kind = "popup" /\ win[w].state = "live" /\ win'[w].state # "live") =>
                \E i \in 1..Len(log') :
                    log'[i].obj = Obj("window", w) /\ log'[i].ev.tag = "Closed"]_vars

\* C11, the case: a popup is inside the dispatch of its timer message, the timer is
\* killed, Closed{Timeout} is the latest entry of its manager's queue and the window
\* is being destroyed.
C11_InsideTimerDispatch ==
    /\ stack # <<>>
    /\ Top.msg = "WM_TIMER" /\ Top.pc = "destroy"
    /\ win[Top.w].state = "destroying" /\ ~win[Top.w].timer
    /\ LET q == mgr[win[Top.w].mgr].queue
       IN q # <<>> /\ q[Len(q)].ev = Closed("Timeout")

(* --------------- Windows build: the tray's context menu --------------- *)
\* The menu is the application's input; the tray of window AppHwnd shows it.
InitMenu ==
    /\ InitManagers(WinManagers) /\ InitObjects
    /\ items \in MenuChoices
    /\ id_map = <<>>
    /\ hmenu = NullMenu
    /\ menu_pc = "idle"
    /\ menu_selected = 0
    /\ menu_ret = None
    /\ destroyed = <<>>

NextMenu ==
    \/ \E ok \in BOOLEAN : show_context_menu(ok)
    \/ \E code \in 0..(MaxEntries * MaxSubItems) : TrackPopupMenu_returns(code)

SpecMenu == InitMenu /\ [][NextMenu]_vars

(* ------------------------------ C12 ----------------------------------- *)
\* C12: IdMap.insert appends the id and returns a fresh code counting from 1:
\* the k-th insert into a fresh map returns k (never 0), the map after it is the
\* map before it with the id appended, and every earlier code resolves to what it
\* resolved to before the insert. Checked for every map a menu build produces,
\* whose native string items carry the codes 1..n in the order of the inserts.
C12_InsertCountsFromOne ==
    /\ \A k \in 1..Len(id_map) :
          LET before == SubSeq(id_map, 1, k - 1)
              r == IdMap_insert(before, id_map[k])
          IN  /\ r.index = k
              /\ r.index # 0
              /\ r.ids = SubSeq(id_map, 1, k)
              /\ \A j \in 1..(k - 1) :
                    IdMap_get(r.ids, j) = IdMap_get(before, j) /\ IdMap_get(r.ids, j).some
    /\ menu_pc = "tracking" =>
          NativeCodes(hmenu.entries) = [i \in 1..Len(id_map) |-> i]

\* A menu with at least three items, one of them repeated, is being tracked.
C12_ThreeInserts ==
    /\ menu_pc = "tracking"
    /\ Len(id_map) >= 3
    /\ \E i, j \in DOMAIN id_map : i < j /\ id_map[i] = id_map[j]

(* ------------------------------ C13 ----------------------------------- *)
\* C13: id round trip. For the n ids inserted into a fresh IdMap, the code each
\* insert returned resolves, in the finished map, to the id inserted by it; two
\* inserts never return the same code, so equal ids at different positions
\* resolve independently; get(0) and get(n+1) return nothing. The id a finished
\* show_context_menu call returned is the one inserted under the selected code.
C13_IdRoundTrip ==
    LET n == Len(id_map)
        code(k) == IdMap_insert(SubSeq(id_map, 1, k - 1), id_map[k]).index
    IN  /\ \A k \in 1..n : IdMap_get(id_map, code(k)) = Some(id_map[k])
        /\ \A i, j \in 1..n : i # j => code(i) # code(j)
        /\ IdMap_get(id_map, 0) = None
        /\ IdMap_get(id_map, n + 1) = None
        /\ menu_ret.some => menu_ret = Some(id_map[menu_selected])

\* The second of two equal ids was selected and came back.
C13_DuplicateResolved ==
    /\ menu_pc = "idle"
    /\ menu_ret.some
    /\ menu_selected = 2
    /\ Len(id_map) >= 3
    /\ id_map[1] = id_map[2]
    /\ id_map[3] # id_map[2]

(* ------------------------------ C14 ----------------------------------- *)
\* The ids of the Item entries of a menu tree in pre-order.
RECURSIVE PreOrderIds(_)
PreOrderIds(its) ==
    IF its = <<>> THEN <<>>
    ELSE LET e == Head(its)
         IN  (CASE e.kind = "Item" -> <<e.id>>
                [] e.kind = "Submenu" -> PreOrderIds(e.items)
                [] OTHER -> <<>>) \o PreOrderIds(Tail(its))

\* The native menu has one entry per MenuEntry, of the matching kind; only string
\* items carry a command code.
RECURSIVE Mirrors(_, _)
Mirrors(entries, its) ==
    /\ Len(entries) = Len(its)
    /\ \A i \in DOMAIN its :
          CASE its[i].kind = "Item" -> entries[i].kind = "MF_STRING" /\ entries[i].code > 0
            [] its[i].kind = "Submenu" ->
                  /\ entries[i].kind = "MF_POPUP" /\ entries[i].code = 0
                  /\ Mirrors(entries[i].sub, its[i].items)
            [] OTHER -> entries[i].kind = "MF_SEPARATOR" /\ entries[i].code = 0

\* C14: a build gives command codes to Item entries only, 1, 2, 3, ... in tree
\* pre-order across nested submenus, so the map built is the pre-order list of
\* item ids; Separator and Submenu entries take no code. A selection is reported
\* as MenuItemClicked with the id of the item at that pre-order position; for
\* [Item(A), Separator, Item(B)] code 2 is B.
C14_CodesInPreOrder ==
    /\ menu_pc = "tracking" =>
          /\ Mirrors(hmenu.entries, items)
          /\ id_map = PreOrderIds(items)
          /\ NativeCodes(hmenu.entries) = [i \in 1..Len(PreOrderIds(items)) |-> i]
    /\ (menu_pc = "idle" /\ menu_ret.some) =>
          /\ menu_ret = Some(PreOrderIds(items)[menu_selected])
          /\ log # <<>>
          /\ log[Len(log)].ev = MenuItemClicked(PreOrderIds(items)[menu_selected])
    /\ (menu_pc = "idle" /\ menu_selected = 2
            /\ items = <<Item("A"), Separator, Item("B")>>) =>
          /\ menu_ret = Some("B")
          /\ log[Len(log)].ev = MenuItemClicked("B")

\* Code 2 of [Item(A), Separator, Item(B)] was selected and B was reported.
C14_SecondItemAfterSeparator ==
    /\ items = <<Item("A"), Separator, Item("B")>>
    /\ menu_pc = "idle"
    /\ menu_selected = 2
    /\ log # <<>>
    /\ log[Len(log)].ev = MenuItemClicked("B")

(* ------------------------------ C16 ----------------------------------- *)
\* C16: a menu built from no entries is "no menu": the handle is null, never an
\* empty native menu object, and showing it displays nothing (TrackPopupMenu is
\* not entered) and returns no selection.
C16_EmptyMenuIsNoMenu ==
    items = <<>> => (hmenu.null /\ menu_pc = "idle" /\ menu_ret = None)

(* ------------------------------ C17 ----------------------------------- *)
\* C17: a show returns Some(id) exactly when TrackPopupMenu reported the code of
\* an item of the menu, and the id is the one the map built by this invocation
\* holds for that code; it returns None when the menu was dismissed (code 0),
\* for any code outside the map, and when the native menu could not be created.
C17_SomeExactlyOnSelection ==
    [][/\ (menu_pc = "tracking" /\ menu_pc' = "idle") =>
             /\ menu_ret'.some <=> menu_selected' \in Range(NativeCodes(hmenu.entries))
             /\ menu_ret'.some => menu_ret' = Some(id_map[menu_selected'])
             /\ menu_selected' = 0 => menu_ret' = None
             /\ \A c \in 0..(Len(id_map) + 1) :
                   context_menu_result(id_map, c).some <=> c \in 1..Len(id_map)
       /\ (menu_pc = "idle" /\ menu_pc' = "idle" /\ hmenu' # hmenu) => menu_ret' = None
       /\ (menu_pc = "idle" /\ menu_pc' = "tracking") => menu_ret' = None]_vars

\* After an earlier selection the menu was shown again and dismissed.
C17_SelectedThenDismissed ==
    /\ log # <<>>
    /\ menu_pc = "idle"
    /\ id_map # <<>>
    /\ menu_selected = 0
    /\ menu_ret = None

(* ------------- Windows build: menu bars of one window ----------------- *)
\* Menu bars are created for the application's window, some of the calls failing;
\* the user picks items of the attached menu.
NextMenuBar ==
    \/ \E b \in Bars, m \in Managers, n \in 0..MaxBarItems,
          fail \in MenuBarFailures \cup {"none"} : MenuBar_new(b, m, AppHwnd, n, fail)
    \/ \E c \in 1..MaxBarItems : WM_COMMAND(AppHwnd, c)
    \/ \E b \in Bars : MenuBar_drop(b)
    \/ \E m \in Managers : try_recv(m)

SpecMenuBar == Init /\ [][NextMenuBar]_vars

(* ------------------------------ C15 ----------------------------------- *)
\* C15: command codes are scoped to the menu tree they were built for. When the
\* user picks an item of the menu attached to a window, the event emitted carries
\* the id of the menu bar whose tree is attached and an item of that tree, also
\* when several MenuBar::new calls were made for the same window.
C15_CommandResolvesInItsTree ==
    [][(Len(log') > Len(log) /\ log'[Len(log')].obj.kind = "menubar") =>
          LET e == log'[Len(log')]
              b == e.obj.i
          IN  /\ menubar[b].attached
              /\ menubar[b].state = "live"
              /\ e.id = menubar[b].id
              /\ e.ev.arg \in 1..menubar[b].n]_vars

(* ------------------------------ C20 ----------------------------------- *)
\* C20: a failed MenuBar::new leaves nothing of the menu bar behind: it is not
\* attached to the window and no callback stored during the failed build is left
\* in MENU_BAR_CALLBACKS, where a later command could still run it.
C20_FailedCreateLeavesNothing ==
    \A b \in Bars :
        menubar[b].state = "failed" =>
            /\ ~menubar[b].attached
            /\ \A k \in DOMAIN MENU_BAR_CALLBACKS : MENU_BAR_CALLBACKS[k].bar # b

(* ----------- Windows build: creation with panicking hooks ------------- *)
\* Trays and popups are created, the construction hook of some of them panicking;
\* the ones created live on and are closed, dropped and destroyed.
NextCreate ==
    \/ \E w \in Windows, m \in Managers, a \in BOOLEAN, panics \in BOOLEAN :
          init_popup(w, m, TRUE, a, FALSE, panics)
    \/ \E w \in Windows, m \in Managers, panics \in BOOLEAN : init(w, m, FALSE, panics)
    \/ \E w \in Windows : close(w)
    \/ \E w \in Windows : DropPopup(w)
    \/ \E w \in Windows : DropTray(w)
    \/ PumpPosted
    \/ \E w \in Windows : PumpTimer(w)
    \/ DestroyWindowSend
    \/ DestroyWindowReturn

SpecCreate == Init /\ [][NextCreate]_vars

(* ------------------------------ C18 ----------------------------------- *)
\* C18: a panic raised in a construction hook of a tray or popup window is kept by
\* the runner and does not leave the window procedure by unwinding; the native
\* creation fails (the window is gone, no record was boxed, the slot is empty);
\* and init / init_popup re-raise the panic after CreateWindowExW has returned
\* instead of returning an error or a window. Without a panic the window is made.
C18_HookPanicResumedAfterCreate ==
    \A w \in Windows :
        /\ ~gh[w].unwound
        /\ gh[w].hookPanic =>
              /\ gh[w].create = "resume_unwind"
              /\ win[w].state = "destroyed" /\ win[w].handle = "none"
              /\ ~win[w].slot
              /\ rec[w].alloc = "none"
        /\ (gh[w].create # "none" /\ ~gh[w].hookPanic) => gh[w].create = "Ok"
        /\ \A p \in BOOLEAN :
              LET cw == CreateWindowExW(p)
              IN  /\ cw.panic_error <=> p
                  /\ p => (cw.null /\ ~cw.slot /\ ~cw.unwound)

\* A popup's hook panicked and a tray was then created on the same thread.
C18_PanicThenCreated ==
    /\ gh[1].hookPanic /\ gh[1].create = "resume_unwind" /\ win[1].kind = "popup"
    /\ gh[2].create = "Ok" /\ win[2].kind = "tray" /\ win[2].state = "live"

NextLinux ==
    \/ \E t \in LinuxTrays, m \in Managers : LinuxTray_new(t, m)
    \/ \E t \in LinuxTrays, ok \in BOOLEAN : Connection_session(t, ok)
    \/ \E t \in LinuxTrays, ok \in BOOLEAN : object_server_at(t, ok)
    \/ \E t \in LinuxTrays, ok \in BOOLEAN : register_with_watcher(t, ok)
    \/ \E t \in LinuxTrays : shutdown_rx_recv(t)
    \/ \E t \in LinuxTrays, ok \in BOOLEAN : unregister_from_watcher(t, ok)
    \/ \E t \in LinuxTrays : object_server_remove(t)
    \/ \E t \in LinuxTrays : LinuxTray_drop(t)
    \/ \E t \in LinuxTrays, timed_out \in BOOLEAN : LinuxTray_drop_returns(t, timed_out)
    \/ \E t \in LinuxTrays : activate(t, "Left")
    \/ \E m \in Managers : try_recv(m)

SpecLinux == Init /\ [][NextLinux]_vars

\* The scheduler runs a thread that can take a step, and a call on the bus returns.
LinuxFairness ==
    \A t \in LinuxTrays :
        /\ WF_vars(\E ok \in BOOLEAN : Connection_session(t, ok))
        /\ WF_vars(\E ok \in BOOLEAN : object_server_at(t, ok))
        /\ WF_vars(\E ok \in BOOLEAN : register_with_watcher(t, ok))
        /\ WF_vars(shutdown_rx_recv(t))
        /\ WF_vars(\E ok \in BOOLEAN : unregister_from_watcher(t, ok))
        /\ WF_vars(object_server_remove(t))

SpecLinuxFair == SpecLinux /\ LinuxFairness

\* C21: when the Linux backend cannot connect to the session bus or cannot register
\* its StatusNotifierItem interface, create_tray returns an error and no handle:
\* a tray whose worker logged such a failure was never handed to the caller.
C21_FailedConstructionReturnsNoHandle ==
    \A t \in LinuxTrays :
        lin[t].logged \cap {"connect", "interface"} # {} => lin[t].state = "none"

\* C30: the worker thread leaves its wait only when a shutdown message is queued or
\* the handle's sender is gone; once the handle is dropped the thread eventually
\* returns with its interface removed, whether or not unregistering succeeded.
C30_ThreadEndsAfterDrop ==
    /\ [][\A t \in LinuxTrays :
            lin[t].thread = "waiting" /\ lin'[t].thread # "waiting"
                => lin[t].shutdown > 0 \/ lin[t].state \in {"dropping", "dropped"}]_vars
    /\ \A t \in LinuxTrays :
            lin[t].state \in {"dropping", "dropped"}
                ~> (ThreadFinished(lin[t]) /\ ~lin[t].interface)

C30_EndedAfterFailedUnregister ==
    \E t \in LinuxTrays :
        /\ lin[t].state = "dropped"
        /\ lin[t].thread = "done"
        /\ "unregister" \in lin[t].logged
        /\ ~lin[t].interface

(* ---- Windows build: creation entry points and the ids they hand out ---- *)
ParentHandles == {"None", "Win32", "Other"}

NextIds ==
    \/ \E w \in Windows, m \in Managers, parent \in ParentHandles :
          init_at(w, m, FALSE, FALSE, parent)
    \/ \E w \in Windows : DropTray(w)
    \/ PumpPosted
    \/ \E w \in Windows : PumpTrayIcon(w, "WM_USER_TRAYICON:WM_LBUTTONDOWN")
    \/ DestroyWindowSend
    \/ DestroyWindowReturn
    \/ \E b \in MenuBars, m \in Managers, n \in 1..MaxItems,
          fail \in {"none", "parent_window"} : MenuBar_new(b, m, AppHwnd, n, fail)
    \/ \E b \in MenuBars : MenuBar_drop(b)
    \/ \E m \in Managers : try_recv(m)

SpecIds == Init /\ [][NextIds]_vars

\* C22: create_tray and create_menu_bar return an error, and do not panic, when the
\* parent window handle of the attributes is of another platform's kind or missing:
\* no creation call ends in a panic.
C22_CreationNeverPanics ==
    \A w \in Windows : gh[w].create # "panic"

\* C23: the id of a destroyed object is not given to a later object while an event
\* carrying it is still queued: when a tray comes to life, no event waiting in a
\* tray manager's queue carries the new tray's id.
C23_NewIdNotPending ==
    [][\A w \in Windows :
          (win[w].state # "live" /\ win'[w].state = "live")
              => \A m \in Managers :
                    mgr[m].kind = "tray"
                        => \A i \in 1..Len(mgr[m].queue) : mgr[m].queue[i].id # w]_vars

NextMenuCommand ==
    \/ \E b \in Bars, m \in Managers, n \in 0..MaxBarItems,
          fail \in MenuBarFailures \cup {"none"} : MenuBar_new(b, m, AppHwnd, n, fail)
    \/ \E hwnd \in Windows, c \in 1..(MaxBarItems + 1) : on_WM_COMMAND(hwnd, c)
    \/ \E b \in Bars : MenuBar_remove(b)
    \/ \E b \in Bars : MenuBar_drop(b)
    \/ \E m \in Managers : try_recv(m)

SpecMenuCommand == Init /\ [][NextMenuCommand]_vars

\* C25: when MenuBar::remove returns the menu bar is detached and no callback is
\* left for any command id of its window, and no MenuItemClicked is ever enqueued
\* on behalf of a menu bar that has been removed.
C25_RemovedBarIsSilent ==
    [][/\ \A b \in Bars :
             (menubar[b].state = "live" /\ menubar'[b].state = "removed")
                 => /\ ~menubar'[b].attached
                    /\ \A k \in DOMAIN MENU_BAR_CALLBACKS' : k[1] # menubar[b].hwnd
       /\ (Len(log') > Len(log) /\ log'[Len(log')].obj.kind = "menubar")
             => menubar[log'[Len(log')].obj.i].state # "removed"]_vars

\* A command is forwarded for the window of a removed bar and nothing is enqueued.
C25_CommandAfterRemove ==
    /\ \E b \in Bars : menubar[b].state = "removed" /\ menubar[b].n >= 1
                        /\ handled.hwnd = menubar[b].hwnd
                        /\ handled.command_id \in 1..menubar[b].n
    /\ ~handled.result
    /\ log = <<>>

\* C26: handle_menu_command(hwnd, command_id) returns true exactly when a callback
\* is stored under (hwnd, command_id); it then enqueues exactly one MenuItemClicked
\* with the item that was given that code and the id of the menu bar that stored
\* it, and otherwise enqueues nothing.
C26_HandledIffRegistered ==
    [][handled' # handled =>
          LET k == <<handled'.hwnd, handled'.command_id>>
          IN  IF k \in DOMAIN MENU_BAR_CALLBACKS
              THEN /\ handled'.result
                   /\ Len(log') = Len(log) + 1
                   /\ log'[Len(log')].ev = MenuItemClicked(MENU_BAR_CALLBACKS[k].item)
                   /\ log'[Len(log')].id = MENU_BAR_CALLBACKS[k].menu_bar_id
                   /\ log'[Len(log')].m = MENU_BAR_CALLBACKS[k].proxy
                   /\ MENU_BAR_CALLBACKS[k].item = k[2]
              ELSE /\ ~handled'.result
                   /\ log' = log /\ mgr' = mgr]_vars

\* A command of a registered code was handled and its one event enqueued.
C26_HandledAndNot ==
    /\ handled.result
    /\ Len(log) = 1
    /\ log[1].ev = MenuItemClicked(handled.command_id)

(* ------------------------------ C27 ----------------------------------- *)
\* Popup w, live and active, loses activation in this step.
LosesActivation(w) ==
    /\ win[w].kind = "popup" /\ win[w].state = "live" /\ win[w].slot
    /\ win[w].active /\ ~win'[w].active

\* C27: a popup that loses activation is closed only when close_on_click_outside is
\* set: then Closed{ClickOutside} is enqueued and the window is being destroyed;
\* with the flag clear no event is enqueued and the popup and its record stay as
\* they were. The auto-dismiss timer is armed at creation or never, and
\* Closed{Timeout} is enqueued only for a popup whose timer is armed.
C27_ClosedOnlyAsConfigured ==
    [][\A w \in Windows :
          /\ LosesActivation(w) =>
                IF rec[w].close_on_click_outside
                THEN /\ Len(log') = Len(log) + 1
                     /\ log'[Len(log')].ev = Closed("ClickOutside")
                     /\ log'[Len(log')].obj = Obj("window", w)
                     /\ win'[w].state = "destroying"
                ELSE /\ log' = log /\ mgr' = mgr
                     /\ win'[w] = [win[w] EXCEPT !.active = FALSE]
                     /\ rec'[w] = rec[w]
          /\ (win'[w].timer /\ ~win[w].timer) => win[w].state = "none"
          /\ (/\ Len(log') > Len(log)
              /\ log'[Len(log')].obj = Obj("window", w)
              /\ log'[Len(log')].ev = Closed("Timeout")) => win[w].timer]_vars

\* A popup without the flag and without a timer was clicked, lost activation, and
\* is still there; nothing but the click was enqueued.
C27_SurvivedDeactivation ==
    \E w \in Windows :
        /\ win[w].kind = "popup" /\ win[w].state = "live" /\ ~win[w].active
        /\ ~rec[w].close_on_click_outside /\ ~win[w].timer
        /\ rec[w].alloc = "live"
        /\ stack = <<>>
        /\ Len(log) = 1 /\ log[1].ev.tag = "PointerButton" /\ log[1].obj = Obj("window", w)

(* ------------------------------ C28 ----------------------------------- *)
\* The menu handles a build of the entries its makes: the menu itself and one for
\* every Submenu below it.
RECURSIVE MenuHandles(_, _)
MenuHandles(its, path) ==
    {path} \cup UNION {MenuHandles(its[i].items, Append(path, i)) :
                          i \in {i \in 1..Len(its) : its[i].kind = "Submenu"}}

\* Handle p lies strictly below handle q in the tree.
Below(p, q) == Len(p) > Len(q) /\ SubSeq(p, 1, Len(q)) = q

\* C28: destroying the menu tree passes every handle of the tree to DestroyMenu
\* exactly once, every submenu before the menu that contains it, and the root last.
C28_DestroyedBottomUpOnce ==
    destroyed # <<>> =>
        /\ Range(destroyed) = MenuHandles(items, <<>>)
        /\ Len(destroyed) = Cardinality(MenuHandles(items, <<>>))
        /\ \A i \in 1..Len(destroyed), j \in 1..Len(destroyed) :
              Below(destroyed[i], destroyed[j]) => i < j
        /\ destroyed[Len(destroyed)] = <<>>

\* A tree with a submenu inside a submenu, and a second submenu beside it, was destroyed.
C28_NestedTreeDestroyed ==
    /\ menu_pc = "idle"
    /\ \E i \in 1..Len(destroyed), j \in 1..Len(destroyed), k \in 1..Len(destroyed) :
          /\ Len(destroyed[i]) = 2
          /\ Len(destroyed[j]) = 1 /\ ~Below(destroyed[i], destroyed[j])
          /\ Len(destroyed[k]) = 1 /\ Below(destroyed[i], destroyed[k])

(* ------------------------------ C29 ----------------------------------- *)
\* The application drops the handle of window w, or calls close() on it, in this step.
HandleCall(w) ==
    \/ win[w].handle = "held" /\ win'[w].handle = "dropped"
    \/ gh'[w].closeReqs > gh[w].closeReqs

\* C29: dropping a Tray or Popup handle, or calling close(), destroys nothing: it
\* posts one message to the window and leaves every window, record and dispatch
\* frame as it was. A live window starts to be destroyed only by a frame of its own
\* window procedure, and is gone only when DestroyWindow returns to that frame.
C29_DestroyedOnlyInItsProcedure ==
    [][\A w \in Windows :
          /\ HandleCall(w) =>
                /\ \A v \in Windows : win'[v].state = win[v].state
                /\ rec' = rec /\ stack' = stack /\ log' = log
                /\ posted' = IF IsWindow(w)
                             THEN Append(posted,
                                         [w |-> w,
                                          msg |-> IF win[w].kind = "tray"
                                                  THEN "DESTROY_MSG" ELSE "POPUP_CLOSE_MSG"])
                             ELSE posted
          /\ (win[w].state = "live" /\ win'[w].state # "live") =>
                /\ win'[w].state = "destroying"
                /\ Len(stack') = Len(stack) + 1
                /\ stack'[Len(stack')].w = w /\ stack'[Len(stack')].pc = "destroy"
          /\ (win[w].state = "destroying" /\ win'[w].state # "destroying") =>
                /\ win'[w].state = "destroyed"
                /\ stack # <<>> /\ stack[Len(stack)].w = w /\ stack[Len(stack)].pc = "destroy"
                /\ Len(stack') = Len(stack) - 1]_vars

\* A tray whose handle was dropped has been destroyed, by the one DestroyWindow
\* call its window procedure made.
C29_DroppedThenDestroyed ==
    \E w \in Windows :
        /\ win[w].kind = "tray" /\ win[w].handle = "dropped"
        /\ win[w].state = "destroyed" /\ stack = <<>>
        /\ gh[w].destroyCalls = 1

(* --------------------- Linux build: icon conversion ------------------- *)
InitIcon ==
    /\ InitManagers(WinManagers) /\ InitNative /\ InitLoop /\ InitPopupMenu /\ InitNoMenu
    /\ icon \in Icons
    /\ sni_icon = NoSniIcon

NextIcon == convert_icon

SpecIcon == InitIcon /\ [][NextIcon]_vars

\* C31: icon_to_sni_icon turns every RGBA pixel [r, g, b, a] into the bytes
\* [a, r, g, b] at the same pixel position, keeps width and height, and yields
\* exactly four bytes per pixel of the input.
C31_PixelsBecomeArgb ==
    sni_icon.some =>
        /\ sni_icon.width = icon.width /\ sni_icon.height = icon.height
        /\ Len(sni_icon.data) = 4 * icon.width * icon.height
        /\ \A p \in 0..(icon.width * icon.height - 1) :
              /\ sni_icon.data[4 * p + 1] = icon.buffer[4 * p + 4]
              /\ sni_icon.data[4 * p + 2] = icon.buffer[4 * p + 1]
              /\ sni_icon.data[4 * p + 3] = icon.buffer[4 * p + 2]
              /\ sni_icon.data[4 * p + 4] = icon.buffer[4 * p + 3]

\* A converted icon of two pixels that differ, with alpha unlike red in the first.
C31_TwoPixelsConverted ==
    /\ sni_icon.some /\ icon.width * icon.height = 2
    /\ icon.buffer[4] # icon.buffer[1]
    /\ SubSeq(icon.buffer, 1, 4) # SubSeq(icon.buffer, 5, 8)
    /\ sni_icon.data[1] = icon.buffer[4]

(* ------------------------------ C32 ----------------------------------- *)
\* C32: Closed is the last event of a popup: once a Closed event has been sent for
\* a popup, no other event of that popup follows it, also when the close was handled
\* by a nested dispatch while an outer dispatch was inside the context-menu handler.
C32_ClosedIsLast ==
    \A i \in 1..Len(log) :
        (log[i].ev.tag = "Closed" /\ log[i].obj.kind = "window")
            => \A j \in (i + 1)..Len(log) : log[j].obj # log[i].obj

\* A popup was closed by a dispatch nested in its own menu dispatch, the menu has
\* returned, and the click that opened the menu precedes the Closed event.
C32_ClosedInsideMenu ==
    \E w \in Windows :
        /\ win[w].kind = "popup" /\ win[w].state = "destroyed" /\ stack = <<>>
        /\ gh[w].destroyDepth = 2
        /\ Len(log) = 2
        /\ log[1].ev = PointerButton("WM_RBUTTONUP") /\ log[1].obj = Obj("window", w)
        /\ log[2].ev.tag = "Closed" /\ log[2].obj = Obj("window", w)

(* ------ Linux build: bus threads send, the application loop drains ----- *)
NextWake ==
    \/ \E t \in LinuxTrays, m \in Managers : LinuxTray_new(t, m)
    \/ \E t \in LinuxTrays : Connection_session(t, TRUE)
    \/ \E t \in LinuxTrays : object_server_at(t, TRUE)
    \/ \E t \in LinuxTrays, ok \in BOOLEAN : register_with_watcher(t, ok)
    \/ \E t \in LinuxTrays : activate_enter(t, "Left")
    \/ \E t \in LinuxTrays : proxy_step(t)
    \/ \E m \in Managers : proxy_wake_up(m)
    \/ \E m \in Managers : proxy_wake_up_drain(m)

\* A thread inside the proxy goes on, and the loop runs a callback that is due.
WakeFairness ==
    /\ \A t \in LinuxTrays : WF_vars(proxy_step(t))
    /\ \A m \in Managers : WF_vars(proxy_wake_up(m)) /\ WF_vars(proxy_wake_up_drain(m))

SpecWake == Init /\ [][NextWake]_vars /\ WakeFairness

\* Manager m's queue will be looked at again: a wake-up is waiting for the loop, the
\* loop is draining the queue, or a thread that has sent is about to signal.
WillDrain(m) ==
    \/ mgr[m].wakes > wakes_seen[m]
    \/ loop_pc = m
    \/ \E t \in LinuxTrays :
          /\ lin[t].mgr = m /\ dbus_call[t].pc > 0
          /\ \E k \in dbus_call[t].pc..Len(proxy_steps) : proxy_steps[k] = "wake_up"

\* C33: no wake-up is lost: an event never sits in the queue unless the loop is
\* still to look at the queue, and every event sent is eventually received.
C33_NoLostWakeUp ==
    /\ [](\A m \in Managers : mgr[m].queue # <<>> => WillDrain(m))
    /\ \A k \in 1..MaxPointer :
          (Len(log) >= k) ~> (/\ Len(log) >= k
                              /\ \E i \in 1..Len(received[log[k].m]) : received[log[k].m][i].n = k)

\* Two threads have sent while the loop was draining, and all of it was received.
C33_AllReceived ==
    /\ Len(log) = MaxPointer
    /\ Len(received[1]) = MaxPointer
    /\ \E i \in 1..MaxPointer : received[1][i].obj.i = 1
    /\ \E i \in 1..MaxPointer : received[1][i].obj.i = 2
    /\ loop_pc = 0

\* Right-button releases and menu selections of one object among the first j
\* entries of a queue.
RightReleases(q, obj, j) ==
    {i \in 1..j : /\ q[i].obj = obj /\ q[i].ev.tag = "PointerButton"
                  /\ q[i].ev.arg \in {"WM_RBUTTONUP", "WM_USER_TRAYICON:WM_RBUTTONUP"}}
MenuClicks(q, obj, j) ==
    {i \in 1..j : q[i].obj = obj /\ q[i].ev.tag = "MenuItemClicked"}

\* C34: in every queue a MenuItemClicked comes after the right-button release that
\* showed its menu, each release accounts for at most one MenuItemClicked, and a
\* menu that is dismissed enqueues nothing.
C34_ReleaseBeforeMenuClick ==
    /\ [](\A m \in Managers : \A j \in 1..Len(mgr[m].queue) :
            mgr[m].queue[j].ev.tag = "MenuItemClicked" =>
               Cardinality(MenuClicks(mgr[m].queue, mgr[m].queue[j].obj, j))
                  <= Cardinality(RightReleases(mgr[m].queue, mgr[m].queue[j].obj, j - 1)))
    /\ [][TrackPopupMenuReturn(0) => mgr' = mgr]_vars

\* A release whose menu gave a selection, then a release whose menu was dismissed.
C34_SelectedThenDismissed ==
    /\ stack = <<>>
    /\ \E m \in Managers, w \in Windows :
          /\ Len(mgr[m].queue) = 3
          /\ \A i \in 1..3 : mgr[m].queue[i].obj = Obj("window", w)
          /\ win[w].kind = "popup"
          /\ mgr[m].queue[1].ev = PointerButton("WM_RBUTTONUP")
          /\ mgr[m].queue[2].ev = MenuItemClicked(1)
          /\ mgr[m].queue[3].ev = PointerButton("WM_RBUTTONUP")

\* C35: removing or dropping a menu bar leaves every callback of every other live
\* menu bar registered.
C35_OtherBarsKeepCallbacks ==
    [][\A b \in Bars :
          (MenuBar_remove(b) \/ MenuBar_drop(b)) =>
              \A x \in Bars \ {b} :
                  menubar[x].state = "live" =>
                      \A k \in DOMAIN MENU_BAR_CALLBACKS :
                          MENU_BAR_CALLBACKS[k].bar = x =>
                              /\ k \in DOMAIN MENU_BAR_CALLBACKS'
                              /\ MENU_BAR_CALLBACKS'[k] = MENU_BAR_CALLBACKS[k]]_vars

(* ------ Windows build: one window's procedure, the proxy may panic ----- *)
NextPanic ==
    \/ NextLifecycle
    \/ \E w \in Windows, msg \in PopupMouseMsgs \cup TrayIconMsgs \cup {"WM_TIMER"},
          sent \in BOOLEAN : PumpPanic(w, msg, sent)

SpecPanic == Init /\ [][NextPanic]_vars

\* C36: a dispatch to a live window in which the proxy panicked returned -1 with the
\* panic kept by the runner, left recurse_depth as it found it, and made the
\* deferred-free check: the record was freed exactly if it was marked removed and no
\* other frame was using it.
C36_PanicCaughtInProcedure ==
    \A w \in Windows :
        gh[w].panic.result # "none" =>
            /\ gh[w].panic.result = "-1"
            /\ gh[w].panic.panic_error
            /\ gh[w].panic.exit = gh[w].panic.entry
            /\ gh[w].panic.freed <=> (gh[w].panic.removed /\ gh[w].panic.exit = 0)
            /\ ~gh[w].unwound

\* The proxy panicked in a dispatch made from the menu's loop of an outer dispatch,
\* which has since returned.
C36_PanicInsideMenuLoop ==
    \E w \in Windows :
        /\ gh[w].panic.result # "none" /\ gh[w].panic.entry = 1
        /\ win[w].kind = "tray"
        /\ stack = <<>>
        /\ rec[w].recurse_depth = 0

\* C37: recurse_depth of a window's record is the number of dispatches that found
\* the record and have not returned: it is never negative, and 0 when no dispatch
\* for the window is running.
C37_DepthCountsFrames ==
    \A w \in Windows : rec[w].recurse_depth = Cardinality(FramesOf(w))

\* A dispatch runs inside another one of the same window, and both found the record.
C37_TwoFramesDeep ==
    \E w \in Windows :
        /\ rec[w].recurse_depth = 2
        /\ Len(stack) = 2 /\ stack[1].w = w /\ stack[2].w = w
        /\ stack[1].pc = "menu" /\ stack[2].pc = "destroy"

\* C38: a proxy invoked after its manager was dropped returns at once: nothing is
\* enqueued, the failed send is logged, and the wake-up is still signalled.
C38_DroppedManagerProxy ==
    [][\A m \in Managers :
          (~mgr[m].alive /\ Len(log') = Len(log) + 1 /\ log'[Len(log')].m = m) =>
              /\ mgr'[m].queue = <<>> /\ mgr[m].queue = <<>>
              /\ mgr'[m].errors = mgr[m].errors + 1
              /\ mgr'[m].wakes = mgr[m].wakes + 1
              /\ ~log'[Len(log')].ok]_vars

\* A tray whose manager was dropped got a click: the event is gone, the failure is
\* logged and the loop was woken.
C38_ClickAfterManagerDropped ==
    \E w \in Windows :
        /\ win[w].state = "live" /\ win[w].kind = "tray"
        /\ ~mgr[win[w].mgr].alive
        /\ log = <<[m |-> win[w].mgr, id |-> w, ev |-> PointerButton("WM_USER_TRAYICON:WM_LBUTTONDOWN"),
                    obj |-> Obj("window", w), n |-> 1, ok |-> FALSE]>>
        /\ mgr[win[w].mgr] = [kind |-> "tray", alive |-> FALSE, queue |-> <<>>, wakes |-> 1,
                              errors |-> 1]

(* ------------------- macOS build: context menus ------------------------ *)
NextPopupMenu ==
    \/ \E its \in MacMenus : show_context_menu_at_location(its)
    \/ \E tag \in 0..MaxMacEntries : popUpMenuPositioningItem_returns(tag)

SpecPopupMenu == InitMac /\ [][NextPopupMenu]_vars

\* C39: a call returns the id of the item picked while its own menu was up, and None
\* when that menu was dismissed or empty, whatever earlier or inner menus recorded.
C39_ResultOfThisShow ==
    popup_ret.shows > 0 =>
        popup_ret.value = IF popup_ret.picked = 0 THEN None
                          ELSE Some(PreOrderIds(popup_ret.items)[popup_ret.picked])

\* A menu shown from inside another one gave a selection, which its call consumed
\* and returned; the outer menu is still up.
C39_InnerPickConsumed ==
    /\ Len(popup_calls) = 1
    /\ popup_ret.shows = 1 /\ popup_ret.picked = 2
    /\ popup_ret.value = Some("B")
    /\ POPUP_MENU_RESULT = None

====
